---------------------------- MODULE Spec2Model ----------------------------
(***************************************************************************)
(* Verification model of the AURA RAG context engine.                      *)
(*                                                                         *)
(*   SpecRAG  : RAGPipeline.retrieve_context (rag_pipeline.py) together    *)
(*              with VectorSearchService.hybrid_search / semantic_search   *)
(*              (vector_search_service.py) and                             *)
(*              TrainingDataService.get_training_context.                  *)
(*   SpecEmb  : EmbeddingService (embedding_service.py).                   *)
(*   SpecSearch, SpecChunk, SpecUpload, SpecTenant : one call of           *)
(*              VectorSearchService (with the fusion on any leg lists),    *)
(*              ChunkProcessor, process_document_upload, and               *)
(*              retrieve_context of a tenant.                              *)
(*   SpecLegs, SpecLegsLive : retrieve_context await by await.             *)
(*   SpecConc : EmbeddingService under concurrent callers.                 *)
(*   SpecBg   : process_document_background tasks                          *)
(*              (routers/process_documents.py).                            *)
(*                                                                         *)
(* Representation.                                                         *)
(*   - A text is represented by the number of whitespace-separated words   *)
(*     it has (len(text.split())); the empty string is 0 words.  A text    *)
(*     assembled from pieces is the sequence of its pieces.                *)
(*   - A similarity s is the integer 1000*s.                               *)
(*   - A token estimate t (words * 1.3) is the integer 10*t = 13*words.    *)
(*   - A confidence factor f is the integer 60000*f, a confidence c is the *)
(*     integer 600000*c (weights 0.4/0.3/0.2/0.1 are 4/3/2/1).  60 is a    *)
(*     multiple of every possible length of search_results[:5], so the     *)
(*     average similarity is exact.                                        *)
(***************************************************************************)
EXTENDS Integers, Sequences, FiniteSets, TLC

(***************************************************************************)
(* Bounds of the model.                                                    *)
(***************************************************************************)
\* largest number of chunks in the document_chunks table
MaxCorpus == 2
\* largest number of texts in one generate_batch_embeddings call
MaxTexts == 2
\* largest number of EmbeddingService calls in one run
MaxEmbCalls == 3
\* largest number of sentences, or of Q:/A: units, in a text to chunk
MaxSentences == 3
\* largest number of rows in one table of the tenant model
MaxTenantRows == 1
\* largest number of results in one leg list handed to the fusion
MaxLegLen == 2
\* number of EmbeddingService calls that run concurrently
MaxConcTasks == 2
\* number of process_document_background tasks that run concurrently
MaxBgTasks == 2

(***************************************************************************)
(* Program constants.                                                      *)
(***************************************************************************)
\* rag_pipeline.py:51   self.max_context_tokens = 3000
max_context_tokens == 3000
\* rag_pipeline.py:153  max_chunks: int = 15
default_max_chunks == 15

(***************************************************************************)
(* Input domains.                                                          *)
(***************************************************************************)
\* len(query.split()) of the queries tried
QueryWords == {0, 3, 12}

\* the query argument: a string of some number of words, or None (a caller
\* passing no string)
Queries ==
    { [is_none |-> TRUE, words |-> 0] } \cup
    { [is_none |-> FALSE, words |-> w] : w \in QueryWords }

\* words of the text the training tables hold for the assistant
\*   0: no training data, 30: small, 1900: above 80% of the budget,
\*   2400: above the whole budget
TrainingChoices == {0, 30, 1900, 2400}

\* The rows of the document_chunks table the calls are tried on.
\*   vsim   : similarity the match_document_chunks RPC computes for the row
\*            (x1000); 0: not similar, 3000: an RPC returning a value above 1
\*   kcount : occurrences of the query in chunk_text (0: no ilike match)
\*   words  : words of chunk_text
\*   meta   : the metadata column, a JSON object ("ok") or NULL ("null")
RowKinds ==
    { [vsim |-> 650,  kcount |-> 0,  words |-> 20,   meta |-> "ok"],
      [vsim |-> 900,  kcount |-> 0,  words |-> 20,   meta |-> "ok"],
      [vsim |-> 900,  kcount |-> 12, words |-> 20,   meta |-> "ok"],
      [vsim |-> 0,    kcount |-> 4,  words |-> 20,   meta |-> "ok"],
      [vsim |-> 0,    kcount |-> 4,  words |-> 20,   meta |-> "null"],
      [vsim |-> 900,  kcount |-> 4,  words |-> 20,   meta |-> "null"],
      [vsim |-> 650,  kcount |-> 4,  words |-> 20,   meta |-> "ok"],
      [vsim |-> 900,  kcount |-> 0,  words |-> 1200, meta |-> "ok"],
      [vsim |-> 3000, kcount |-> 0,  words |-> 3000, meta |-> "ok"],
      [vsim |-> 0,    kcount |-> 12, words |-> 3000, meta |-> "ok"] }

\* the document_chunks table: rows 1..n, chunk_id = position
Corpora ==
    UNION { [1..n -> RowKinds] : n \in 0..MaxCorpus }

\* embedding_service.py:18  self.max_batch_size = 100
max_batch_size == 100

\* the texts given to the embedding service: empty, whitespace only, two
\* texts that are equal after trimming, and a different text
RawTexts == {"", " ", "a", " a", "b"}

\* the batch_size arguments tried; 0 stands for batch_size=None (0 and None
\* both select max_batch_size at line 88)
BatchSizeChoices == {0, 1, 2}

\* the values of max_chunks tried
MaxChunksChoices == {1, default_max_chunks}

VARIABLES
    pc,                 \* position of the retrieve_context call
    query,              \* the query argument, an element of Queries
    use_hybrid_search,  \* argument of retrieve_context
    max_chunks,         \* argument of retrieve_context
    assistant_key,      \* "none" or the assistant the caller asks for
    training_context,   \* words of the text fetched at step 1
    all_results,        \* search results gathered at step 2
    context_sources,    \* sequence of source names
    steps_failed,       \* set of steps of this call that raised
    rag_context,        \* the RAGContext returned, or NoRAGContext
    embedding_cache,    \* EmbeddingService._embedding_cache: hash -> vector
    cache_hits,         \* EmbeddingService._cache_hits
    cache_misses,       \* EmbeddingService._cache_misses
    emb_pc,             \* position of the embedding call in progress
    emb_call,           \* arguments and locals of the call in progress
    emb_history,        \* the last completed calls, oldest first
    emb_calls_started,  \* number of calls started so far
    hs_pc,              \* position of the VectorSearchService call
    hs_call,            \* arguments of that call and the tables it reads
    hs_result,          \* what the call returned, with its intermediate lists
    ck_pc,              \* position of the smart_chunk_document call
    ck_call,            \* its arguments
    ck_result,          \* the list it returned, or that it raised
    up_pc,              \* position of the process_document_upload call
    up_call,            \* its arguments
    up_local,           \* its locals and those of the storage helper
    up_io,              \* calls made to the embedding backend and storage
    up_store,           \* documents and chunk records persisted
    up_result,          \* the RAGProcessingResult returned
    tn_pc,              \* position of the retrieve_context call of a tenant
    tn_call,            \* its arguments and the tables it reads
    tn_result,          \* the rows its context is built from
    lg_pc,              \* position of a retrieve_context call, await by await
    lg_call,            \* its arguments
    lg_legs,            \* state of the two retrieval legs of hybrid_search
    lg_result,          \* which RAGContext it returned
    co_tasks,           \* concurrent EmbeddingService calls, one per task
    co_backend,         \* (text, vector) pairs the backend has returned
    co_last,            \* the operation of the last step
    bg_tasks,           \* process_document_background tasks, one per task
    bg_chunks,          \* rows of the document_chunks table
    bg_documents,       \* doc_ids with a row in the documents table
    bg_cached           \* doc_ids whose chunk texts are in the cache

ragVars == <<pc, query, use_hybrid_search, max_chunks, assistant_key,
             training_context, all_results, context_sources, steps_failed,
             rag_context>>

embVars == <<embedding_cache, cache_hits, cache_misses, emb_pc, emb_call,
             emb_history, emb_calls_started>>

searchVars == <<hs_pc, hs_call, hs_result>>

chunkVars == <<ck_pc, ck_call, ck_result>>

uploadVars == <<up_pc, up_call, up_local, up_io, up_store, up_result>>

tenantVars == <<tn_pc, tn_call, tn_result>>

legVars == <<lg_pc, lg_call, lg_legs, lg_result>>

concVars == <<co_tasks, co_backend, co_last>>

bgVars == <<bg_tasks, bg_chunks, bg_documents, bg_cached>>

\* the variables none of the components below the pipeline touches
newVars == <<legVars, concVars, bgVars>>

\* what a retrieve_context step leaves alone
notRagVars == <<embVars, searchVars, chunkVars, uploadVars, tenantVars,
                  newVars>>

\* what an EmbeddingService step leaves alone
notEmbVars == <<ragVars, searchVars, chunkVars, uploadVars, tenantVars,
                  newVars>>

\* what a VectorSearchService step leaves alone
notSearchVars == <<ragVars, embVars, chunkVars, uploadVars, tenantVars,
                  newVars>>

\* what a ChunkProcessor step leaves alone
notChunkVars == <<ragVars, embVars, searchVars, uploadVars, tenantVars,
                  newVars>>

\* what a process_document_upload step leaves alone
notUploadVars == <<ragVars, embVars, searchVars, chunkVars, tenantVars,
                  newVars>>

\* what a step of the call of a tenant leaves alone
notTenantVars == <<ragVars, embVars, searchVars, chunkVars, uploadVars,
                  newVars>>

\* what a step of the await-by-await retrieve_context call leaves alone
notLegVars == <<ragVars, embVars, searchVars, chunkVars, uploadVars,
                tenantVars, concVars, bgVars>>

\* what a step of a concurrent EmbeddingService task leaves alone, besides
\* the fields of the calls made one after the other
notConcVars == <<ragVars, searchVars, chunkVars, uploadVars, tenantVars,
                 legVars, bgVars>>

\* what a step of a background task leaves alone
notBgVars == <<ragVars, embVars, searchVars, chunkVars, uploadVars,
               tenantVars, legVars, concVars>>

vars == <<ragVars, embVars, searchVars, chunkVars, uploadVars, tenantVars,
          legVars, concVars, bgVars>>

(***************************************************************************)
(* Small helpers on sequences.                                             *)
(***************************************************************************)
Min2(a, b) == IF a <= b THEN a ELSE b

Max2(a, b) == IF a >= b THEN a ELSE b

\* s[:n]
Take(s, n) == SubSeq(s, 1, Min2(Len(s), Max2(n, 0)))

RECURSIVE SeqSum(_)
SeqSum(s) == IF s = <<>> THEN 0 ELSE Head(s) + SeqSum(Tail(s))

\* an insertion that puts r before the elements of equal similarity
RECURSIVE InsertDescBeforeEquals(_, _)
InsertDescBeforeEquals(sorted, r) ==
    IF sorted = <<>> THEN <<r>>
    ELSE IF Head(sorted).similarity > r.similarity
         THEN <<Head(sorted)>> \o InsertDescBeforeEquals(Tail(sorted), r)
         ELSE <<r>> \o sorted

\* insert r into a list sorted by similarity (descending), after every
\* element whose similarity is >= r's: keeps the sort stable
RECURSIVE InsertDesc(_, _)
InsertDesc(sorted, r) ==
    IF sorted = <<>> THEN <<r>>
    ELSE IF Head(sorted).similarity >= r.similarity
         THEN <<Head(sorted)>> \o InsertDesc(Tail(sorted), r)
         ELSE <<r>> \o sorted

\* sorted(results, key=lambda x: x.similarity, reverse=True)  (stable)
RECURSIVE SortDesc(_)
SortDesc(s) ==
    IF s = <<>> THEN <<>>
    ELSE InsertDesc(SortDesc(SubSeq(s, 1, Len(s) - 1)), s[Len(s)])

(***************************************************************************)
(* VectorSearchService  (vector_search_service.py)                         *)
(*                                                                         *)
(* A list returned by a search method is modelled as a record              *)
(* [raised, results]: raised = TRUE is an exception leaving the method.    *)
(***************************************************************************)
Returned(results) == [raised |-> FALSE, results |-> results]

Raised == [raised |-> TRUE, results |-> <<>>]

\* default_similarity_threshold = 0.7
default_similarity_threshold == 700

\* the rows of the table with their chunk_id
RowsOf(corpus) ==
    [i \in 1..Len(corpus) |->
        [chunk_id |-> i, vsim |-> corpus[i].vsim, kcount |-> corpus[i].kcount,
         words |-> corpus[i].words, meta |-> corpus[i].meta]]

RECURSIVE RowsAtOrAbove(_, _)
RowsAtOrAbove(rows, threshold) ==
    IF rows = <<>> THEN <<>>
    ELSE IF Head(rows).vsim >= threshold
         THEN <<Head(rows)>> \o RowsAtOrAbove(Tail(rows), threshold)
         ELSE RowsAtOrAbove(Tail(rows), threshold)

RECURSIVE InsertRowDesc(_, _)
InsertRowDesc(sorted, r) ==
    IF sorted = <<>> THEN <<r>>
    ELSE IF Head(sorted).vsim >= r.vsim
         THEN <<Head(sorted)>> \o InsertRowDesc(Tail(sorted), r)
         ELSE <<r>> \o sorted

RECURSIVE SortRowsDesc(_)
SortRowsDesc(s) ==
    IF s = <<>> THEN <<>>
    ELSE InsertRowDesc(SortRowsDesc(SubSeq(s, 1, Len(s) - 1)), s[Len(s)])

\* the database function match_document_chunks: the rows whose similarity to
\* the query embedding is at or above match_threshold, best first, at most
\* match_count of them
match_document_chunks(corpus, match_threshold, match_count) ==
    Take(SortRowsDesc(RowsAtOrAbove(RowsOf(corpus), match_threshold)),
         match_count)

\* the ilike '%query%' filter with .limit(limit): the first rows, in table
\* order, whose text contains the query
RECURSIVE RowsMatchingKeyword(_)
RowsMatchingKeyword(rows) ==
    IF rows = <<>> THEN <<>>
    ELSE IF Head(rows).kcount > 0
         THEN <<Head(rows)>> \o RowsMatchingKeyword(Tail(rows))
         ELSE RowsMatchingKeyword(Tail(rows))

HasNullMeta(rows) == \E i \in 1..Len(rows) : rows[i].meta = "null"

\* _search_document_chunks: lines 102-160.  metadata.get(...) on a NULL
\* metadata raises AttributeError inside the try, which returns [].
\* Every row with metadata belongs to the assistant asked for.
SearchDocumentChunks(corpus, limit, similarity_threshold, rpc_ok) ==
    IF ~rpc_ok THEN <<>>
    ELSE LET data == match_document_chunks(corpus, similarity_threshold, limit)
         IN  IF data = <<>> THEN <<>>
             ELSE IF HasNullMeta(data) THEN <<>>
             ELSE [i \in 1..Len(data) |->
                     [chunk_id |-> data[i].chunk_id,
                      doc_id |-> "doc",
                      similarity |-> data[i].vsim,
                      words |-> data[i].words,
                      metadata |-> data[i].meta,
                      source |-> "document_chunks"]]

\* EmbeddingService.embed_query as semantic_search sees it: "raise" for
\* query=None (query.strip()), "zero" for the zero vector (empty text or a
\* failed backend call), "vector" otherwise
EmbedQueryOutcome(q, embed_ok) ==
    IF q.is_none THEN "raise"
    ELSE IF q.words = 0 \/ ~embed_ok THEN "zero"
    ELSE "vector"

\* semantic_search: lines 41-100 (search_sources defaults to document_chunks)
SemanticSearch(q, corpus, limit, similarity_threshold, embed_ok, rpc_ok) ==
    IF EmbedQueryOutcome(q, embed_ok) # "vector" THEN <<>>
    ELSE Take(SortDesc(SearchDocumentChunks(corpus, limit * 2,
                                            similarity_threshold, rpc_ok)),
              limit)

\* _keyword_search: lines 327-389
KeywordSearch(q, corpus, akey, limit, kw_ok) ==
    IF ~kw_ok THEN <<>>
    ELSE LET data == Take(RowsMatchingKeyword(RowsOf(corpus)), limit)
         IN  IF data = <<>> THEN <<>>
             ELSE IF q.is_none THEN <<>>
             ELSE IF akey # "none" /\ HasNullMeta(data) THEN <<>>
             ELSE [i \in 1..Len(data) |->
                     [chunk_id |-> data[i].chunk_id,
                      doc_id |-> "doc",
                      similarity |-> Min2(data[i].kcount * 100, 1000),
                      words |-> data[i].words,
                      metadata |-> data[i].meta,
                      source |-> "keyword_search"]]

\* a lookup that never finds the key
KeyIndexOfNothing(map, result, i) == 0

\* position of the entry with this (chunk_id, doc_id) key in the map, or 0
RECURSIVE KeyIndex(_, _, _)
KeyIndex(map, result, i) ==
    IF i > Len(map) THEN 0
    ELSE IF map[i].result.chunk_id = result.chunk_id
            /\ map[i].result.doc_id = result.doc_id THEN i
    ELSE KeyIndex(map, result, i + 1)

\* lines 402-409: combined_map[key] = {...} for every vector result
RECURSIVE AddVectorResults(_, _)
AddVectorResults(map, vector_results) ==
    IF vector_results = <<>> THEN map
    ELSE LET r == Head(vector_results)
             k == KeyIndex(map, r, 1)
             entry == [result |-> r, vector_score |-> r.similarity,
                       keyword_score |-> 0]
         IN  AddVectorResults(
                 IF k = 0 THEN Append(map, entry)
                          ELSE [map EXCEPT ![k] = entry],
                 Tail(vector_results))

\* lines 411-423: keyword results update an existing key or add a new one
RECURSIVE AddKeywordResults(_, _)
AddKeywordResults(map, keyword_results) ==
    IF keyword_results = <<>> THEN map
    ELSE LET r == Head(keyword_results)
             k == KeyIndex(map, r, 1)
         IN  AddKeywordResults(
                 IF k = 0
                 THEN Append(map, [result |-> r, vector_score |-> 0,
                                   keyword_score |-> r.similarity])
                 ELSE [map EXCEPT ![k].keyword_score = r.similarity],
                 Tail(keyword_results))

\* a fusion that keeps the better of the two weighted scores
CombinedScoreMaxOfLegs(vector_score, keyword_score, vector_weight, keyword_weight) ==
    Max2(vector_score * vector_weight, keyword_score * keyword_weight) \div 10

\* line 432, with the weights in tenths
CombinedScore(vector_score, keyword_score, vector_weight, keyword_weight) ==
    (vector_score * vector_weight + keyword_score * keyword_weight) \div 10

\* _combine_search_results: lines 391-454.  {**result.metadata, ...} raises
\* TypeError when the metadata of the kept result is None.
CombineSearchResults(vector_results, keyword_results, vector_w, keyword_w) ==
    LET map == AddKeywordResults(AddVectorResults(<<>>, vector_results),
                                 keyword_results)
    IN  IF \E i \in 1..Len(map) : map[i].result.metadata = "null"
        THEN Raised
        ELSE Returned(SortDesc(
                [i \in 1..Len(map) |->
                    [chunk_id |-> map[i].result.chunk_id,
                     doc_id |-> map[i].result.doc_id,
                     similarity |-> CombinedScore(map[i].vector_score,
                                                  map[i].keyword_score,
                                                  vector_w, keyword_w),
                     words |-> map[i].result.words,
                     metadata |-> "ok",
                     source |-> "hybrid_search"]]))

\* the outcomes of the external calls of one search: the embedding backend,
\* the match_document_chunks RPC and the keyword query succeed or fail
SearchEnvs == [embed_ok : BOOLEAN, rpc_ok : BOOLEAN, kw_ok : BOOLEAN]

\* the same hybrid_search that gives up as soon as one leg is empty
HybridSearchAllOrNothing(q, corpus, akey, limit, vector_weight, keyword_weight, env) ==
    LET vector_results ==
            SemanticSearch(q, corpus, limit * 2, 500, env.embed_ok, env.rpc_ok)
        keyword_results ==
            KeywordSearch(q, corpus, akey, limit * 2, env.kw_ok)
        combined_results ==
            CombineSearchResults(vector_results, keyword_results,
                                 vector_weight, keyword_weight)
    IN  IF vector_results = <<>> \/ keyword_results = <<>> THEN <<>>
        ELSE IF combined_results.raised
        THEN SemanticSearch(q, corpus, limit, default_similarity_threshold,
                            env.embed_ok, env.rpc_ok)
        ELSE Take(combined_results.results, limit)

\* hybrid_search: lines 280-325
HybridSearch(q, corpus, akey, limit, vector_weight, keyword_weight, env) ==
    LET vector_results ==
            SemanticSearch(q, corpus, limit * 2, 500, env.embed_ok, env.rpc_ok)
        keyword_results ==
            KeywordSearch(q, corpus, akey, limit * 2, env.kw_ok)
        combined_results ==
            CombineSearchResults(vector_results, keyword_results,
                                 vector_weight, keyword_weight)
    IN  IF combined_results.raised
        THEN SemanticSearch(q, corpus, limit, default_similarity_threshold,
                            env.embed_ok, env.rpc_ok)
        ELSE Take(combined_results.results, limit)

\* TRUE when _combine_search_results raises inside hybrid_search
FusionRaises(q, corpus, akey, limit, env) ==
    CombineSearchResults(
        SemanticSearch(q, corpus, limit * 2, 500, env.embed_ok, env.rpc_ok),
        KeywordSearch(q, corpus, akey, limit * 2, env.kw_ok), 7, 3).raised

(***************************************************************************)
(* TrainingDataService.get_training_context  (training_data_service.py)    *)
(***************************************************************************)
\* what a fetch finds: the storage answers (ok) with a text of some words,
\* or the storage call fails
TrainingFetches ==
    { [ok |-> TRUE, words |-> w] : w \in TrainingChoices } \cup
    { [ok |-> FALSE, words |-> 0] }

\* get_training_context: lines 14-49.  Every exception is caught and turned
\* into the empty string (line 47-49); the method never raises.
GetTrainingContext(fetch) ==
    [raised |-> FALSE, text |-> IF fetch.ok THEN fetch.words ELSE 0]

(***************************************************************************)
(* RAGPipeline  (rag_pipeline.py)                                          *)
(***************************************************************************)
\* len(text.split()) * 1.3, in tenths of a token
Tokens10(words) == words * 13

\* _format_source_info: lines 453-473, the words of
\* "[Source: s | Document: f | Type: t | Relevance: 0.90]"
SourceInfoWords(result) ==
    2 + (IF result.metadata = "ok" THEN 6 ELSE 0) + 3

\* f"{source_info}\n{result.content}"
ContentBlockWords(result) == SourceInfoWords(result) + result.words

\* _truncate_content: lines 475-482
TruncateContent(content_words, max_words) ==
    IF content_words <= max_words
    THEN [words |-> content_words, truncated |-> FALSE]
    ELSE [words |-> max_words + 1, truncated |-> TRUE]

\* the loop of lines 420-440 over the sorted results; acc is
\* [current_tokens, vector_content]
RECURSIVE AddSearchResults(_, _, _)
AddSearchResults(sorted_results, acc, max_tokens) ==
    IF sorted_results = <<>> THEN acc
    ELSE IF acc.current_tokens >= max_tokens * 9 THEN acc
    ELSE LET result == Head(sorted_results)
             content_tokens == Tokens10(ContentBlockWords(result))
         IN  IF acc.current_tokens + content_tokens <= max_tokens * 10
             THEN AddSearchResults(
                      Tail(sorted_results),
                      [current_tokens |-> acc.current_tokens + content_tokens,
                       vector_content |->
                           Append(acc.vector_content,
                                  [words |-> ContentBlockWords(result),
                                   truncated |-> FALSE])],
                      max_tokens)
             ELSE LET remaining_tokens ==
                          max_tokens * 10 - acc.current_tokens
                  IN  IF remaining_tokens > 500
                      THEN [current_tokens |-> acc.current_tokens,
                            vector_content |->
                                Append(acc.vector_content,
                                       TruncateContent(
                                           ContentBlockWords(result),
                                           remaining_tokens \div 13))]
                      ELSE acc

\* words of "\n\n".join(vector_content)
RECURSIVE BlocksWords(_)
BlocksWords(blocks) ==
    IF blocks = <<>> THEN 0 ELSE Head(blocks).words + BlocksWords(Tail(blocks))

\* lines 404-411: the "EXACT TRAINING DATA:\n..." section, when it fits
TrainingSection(training_text, max_tokens) ==
    IF training_text > 0
       /\ Tokens10(3 + training_text) <= max_tokens * 10
    THEN << [kind |-> "training", words |-> 3 + training_text,
             blocks |-> <<>>] >>
    ELSE <<>>

\* _build_comprehensive_context: lines 392-451.  The context string is the
\* sequence of its sections (context_parts); the empty sequence is "".
BuildComprehensiveContext(training_text, search_results, max_tokens) ==
    LET training_parts == TrainingSection(training_text, max_tokens)
        current_tokens ==
            IF training_parts = <<>> THEN 0
            ELSE Tokens10(training_parts[1].words)
        acc == IF search_results # <<>> /\ current_tokens < max_tokens * 8
               THEN AddSearchResults(
                        SortDesc(search_results),
                        [current_tokens |-> current_tokens,
                         vector_content |-> <<>>],
                        max_tokens)
               ELSE [current_tokens |-> current_tokens,
                     vector_content |-> <<>>]
    IN  IF acc.vector_content # <<>>
        THEN training_parts \o
             << [kind |-> "semantic",
                 words |-> 3 + BlocksWords(acc.vector_content),
                 blocks |-> acc.vector_content] >>
        ELSE training_parts

\* len(context_text.split()) for a context built of sections joined by
\* "\n\n=== CONTEXT SEPARATOR ===\n\n"
RECURSIVE SectionsWords(_)
SectionsWords(parts) ==
    IF parts = <<>> THEN 0
    ELSE Head(parts).words + SectionsWords(Tail(parts))

ContextWords(context_text) ==
    SectionsWords(context_text)
    + (IF Len(context_text) > 1 THEN 4 * (Len(context_text) - 1) ELSE 0)

\* similarity of each result
Similarities(results) == [i \in 1..Len(results) |-> results[i].similarity]

HighQualityCount(results) ==
    Cardinality({ i \in 1..Len(results) : results[i].similarity > 800 })

\* lines 493-514: the list confidence_factors
ConfidenceFactors(training_text, search_results, q) ==
    (IF training_text > 0 THEN <<54000>> ELSE <<>>)
    \o (IF search_results # <<>>
        THEN LET top_results == Take(search_results, 5)
             IN  << (SeqSum(Similarities(top_results)) * 60)
                        \div Len(top_results),
                    Min2(HighQualityCount(search_results) * 6000, 12000) >>
        ELSE <<>>)
    \o << 60000 - (Min2(q.words * 6000, 60000) * 3) \div 10 >>

\* weights = [0.4, 0.3, 0.2, 0.1]
ConfidenceWeights == <<4, 3, 2, 1>>

\* lines 523-529: pad with 0.0, trim to the weights, weighted sum
WeightedConfidence(factors) ==
    LET padded == [i \in 1..Len(ConfidenceWeights) |->
                      IF i <= Len(factors) THEN factors[i] ELSE 0]
    IN  SeqSum([i \in 1..Len(ConfidenceWeights) |->
                   padded[i] * ConfidenceWeights[i]])

\* the weighted sum returned as it is
ClampMissing(x) == x

\* min(max(x, 0.0), 1.0)
Clamp01(x) == Min2(Max2(x, 0), 600000)

\* _calculate_confidence: lines 484-531.  query.split() raises
\* AttributeError when query is None.
CalculateConfidence(training_text, search_results, q) ==
    IF q.is_none THEN [raised |-> TRUE, value |-> 0]
    ELSE LET factors == ConfidenceFactors(training_text, search_results, q)
         IN  [raised |-> FALSE,
              value |-> IF factors = <<>> THEN 0
                        ELSE Clamp01(WeightedConfidence(factors))]

(***************************************************************************)
(* retrieve_context as a state machine: lines 147-283.                     *)
(*   idle -> fetch_exact -> retrieve -> assemble -> done                   *)
(*                   \___________\__________\-> except -> done             *)
(* "raised" is an exception leaving retrieve_context.                      *)
(***************************************************************************)
NoRAGContext == [none |-> TRUE]

\* the value assigned to processing_time (wall-clock seconds, not modelled)
Elapsed == "seconds"

\* a handler written for one exception type only
ExceptionCaughtNarrow(exc_type) == exc_type = "ValueError"

\* line 252: "except Exception" catches every exception type raised by the
\* steps of the try block
ExceptionCaught(exc_type) == TRUE

\* where control goes when a step of the try block raises exc_type
OnStepException(exc_type) ==
    IF ExceptionCaught(exc_type) THEN "except" ELSE "raised"

\* lines 238-247
NormalContext(q, results, context_text, confidence, sources) ==
    [query |-> q,
     retrieved_chunks |-> results,
     context_text |-> context_text,
     source_count |-> Len(results),
     confidence_score |-> confidence,
     processing_time |-> Elapsed,
     context_sources |-> sources,
     token_count |-> Tokens10(ContextWords(context_text)) \div 10]

\* the two fallback confidences exchanged
FallbackConfidenceSwapped(fallback_context) ==
    IF fallback_context > 0 THEN 60000 ELSE 300000

\* the confidence of the exact-only fallback: 0.5 if fallback_context else 0.1
FallbackConfidence(fallback_context) ==
    IF fallback_context > 0 THEN 300000 ELSE 60000

\* lines 262-271: the fallback text is returned as it was fetched
FallbackContext(q, fallback_context) ==
    [query |-> q,
     retrieved_chunks |-> <<>>,
     context_text |-> IF fallback_context > 0
                      THEN << [kind |-> "fallback", words |-> fallback_context,
                               blocks |-> <<>>] >>
                      ELSE <<>>,
     source_count |-> 0,
     confidence_score |-> FallbackConfidence(fallback_context),
     processing_time |-> Elapsed,
     context_sources |-> IF fallback_context > 0
                         THEN <<"training_data_fallback">> ELSE <<>>,
     token_count |-> fallback_context]

\* lines 274-283
DoubleFailureContext(q) ==
    [query |-> q,
     retrieved_chunks |-> <<>>,
     context_text |-> <<>>,
     source_count |-> 0,
     confidence_score |-> 0,
     processing_time |-> Elapsed,
     context_sources |-> <<>>,
     token_count |-> 0]

InitRAG ==
    /\ pc = "idle"
    /\ query = [is_none |-> FALSE, words |-> 0]
    /\ use_hybrid_search = TRUE
    /\ max_chunks = default_max_chunks
    /\ assistant_key = "none"
    /\ training_context = 0
    /\ all_results = <<>>
    /\ context_sources = <<>>
    /\ steps_failed = {}
    /\ rag_context = NoRAGContext

\* a caller invokes retrieve_context (lines 147-178); every call starts from
\* fresh locals
StartRequest ==
    /\ pc \in {"idle", "done"}
    /\ \E q \in Queries, h \in BOOLEAN, m \in MaxChunksChoices,
          a \in {"none", "assistant"} :
          /\ query' = q
          /\ use_hybrid_search' = h
          /\ max_chunks' = m
          /\ assistant_key' = a
    /\ pc' = "fetch_exact"
    /\ training_context' = 0
    /\ all_results' = <<>>
    /\ context_sources' = <<>>
    /\ steps_failed' = {}
    /\ rag_context' = NoRAGContext
    /\ UNCHANGED notRagVars

\* lines 180-188: step 1, the training context
FetchExact ==
    /\ pc = "fetch_exact"
    /\ \E fetch \in TrainingFetches :
          LET r == GetTrainingContext(fetch)
          IN  IF r.raised
              THEN /\ pc' = OnStepException("Exception")
                   /\ steps_failed' = steps_failed \cup {"fetch_exact"}
                   /\ UNCHANGED <<training_context, context_sources>>
              ELSE /\ pc' = "retrieve"
                   /\ training_context' = r.text
                   /\ context_sources' =
                          IF r.text > 0 THEN <<"training_data">> ELSE <<>>
                   /\ steps_failed' =
                          IF fetch.ok THEN steps_failed
                          ELSE steps_failed \cup {"training_storage"}
    /\ UNCHANGED <<query, use_hybrid_search, max_chunks, assistant_key,
                   all_results, rag_context>>
    /\ UNCHANGED notRagVars

\* what went wrong inside the search call, all of it absorbed there
SearchFailures(q, corpus, akey, limit, hybrid, env) ==
    (IF ~env.embed_ok THEN {"embedding"} ELSE {})
    \cup (IF ~env.rpc_ok THEN {"vector_storage"} ELSE {})
    \cup (IF hybrid /\ ~env.kw_ok THEN {"keyword_storage"} ELSE {})
    \cup (IF hybrid /\ FusionRaises(q, corpus, akey, limit, env)
          THEN {"fusion"} ELSE {})

\* lines 190-216: step 2, hybrid or vector search over the table as it is
\* at the time of the call
Retrieve ==
    /\ pc = "retrieve"
    /\ \E corpus \in Corpora, env \in SearchEnvs :
          LET vector_results ==
                  IF use_hybrid_search
                  THEN HybridSearch(query, corpus, assistant_key, max_chunks,
                                    7, 3, env)
                  ELSE SemanticSearch(query, corpus, max_chunks, 600,
                                      env.embed_ok, env.rpc_ok)
              search_method ==
                  IF use_hybrid_search THEN "hybrid" ELSE "vector"
          IN  /\ all_results' = all_results \o vector_results
              /\ context_sources' =
                     IF vector_results # <<>>
                     THEN Append(context_sources, search_method)
                     ELSE context_sources
              /\ steps_failed' =
                     steps_failed \cup
                     SearchFailures(query, corpus, assistant_key, max_chunks,
                                    use_hybrid_search, env)
    /\ pc' = "assemble"
    /\ UNCHANGED <<query, use_hybrid_search, max_chunks, assistant_key,
                   training_context, rag_context>>
    /\ UNCHANGED notRagVars

\* lines 218-250: steps 3-5, build the context, score it, return
Assemble ==
    /\ pc = "assemble"
    /\ LET context_text ==
               BuildComprehensiveContext(training_context, all_results,
                                         max_context_tokens)
           confidence ==
               CalculateConfidence(training_context, all_results, query)
       IN  IF confidence.raised
           THEN /\ pc' = OnStepException("AttributeError")
                /\ steps_failed' = steps_failed \cup {"confidence"}
                /\ UNCHANGED rag_context
           ELSE /\ pc' = "done"
                /\ rag_context' =
                       NormalContext(query, all_results, context_text,
                                     confidence.value, context_sources)
                /\ UNCHANGED steps_failed
    /\ UNCHANGED <<query, use_hybrid_search, max_chunks, assistant_key,
                   training_context, all_results, context_sources>>
    /\ UNCHANGED notRagVars

\* lines 252-283: the handler fetches the training context again and
\* returns it alone
Fallback ==
    /\ pc = "except"
    /\ \E fetch \in TrainingFetches :
          LET r == GetTrainingContext(fetch)
          IN  /\ rag_context' =
                     IF r.raised THEN DoubleFailureContext(query)
                     ELSE FallbackContext(query, r.text)
              /\ steps_failed' =
                     IF r.raised \/ ~fetch.ok
                     THEN steps_failed \cup {"fallback_fetch"}
                     ELSE steps_failed
    /\ pc' = "done"
    /\ UNCHANGED <<query, use_hybrid_search, max_chunks, assistant_key,
                   training_context, all_results, context_sources>>
    /\ UNCHANGED notRagVars

(***************************************************************************)
(* EmbeddingService  (embedding_service.py)                                *)
(***************************************************************************)
\* text.strip()
Strip(text) ==
    CASE text = " "  -> ""
      [] text = " a" -> "a"
      [] OTHER       -> text

\* the trimmed texts that can reach the cache
TrimmedTexts == { Strip(t) : t \in RawTexts } \ {""}

\* hash(text): the cache key.  Python's str hash is taken to be free of
\* collisions on the texts of one run.
Hash(text) ==
    CASE text = "a" -> 97
      [] text = "b" -> 98
      [] OTHER    -> 0

HashValues == { Hash(t) : t \in TrimmedTexts }

\* [0.0] * self.dimensions
ZeroVector == [zero |-> TRUE, of |-> ""]

\* the vector the embedding backend computes for a text
EmbeddingOf(text) == [zero |-> FALSE, of |-> text]

\* a key that is not in the cache
NotCached == [zero |-> TRUE, of |-> "absent"]

InCache(cache, text) == cache[Hash(text)] # NotCached

NoEmbCall == [op |-> "none"]

InitEmb ==
    /\ embedding_cache = [h \in HashValues |-> NotCached]
    /\ cache_hits = 0
    /\ cache_misses = 0
    /\ emb_pc = "idle"
    /\ emb_call = NoEmbCall
    /\ emb_history = <<>>
    /\ emb_calls_started = 0

\* The record of a completed call.  A generate_embedding call is kept with
\* the generate_embedding call that came right before it; any other call is
\* kept alone.
Remember(history, record) ==
    IF history # <<>> /\ record.op = "generate_embedding"
       /\ history[Len(history)].op = "generate_embedding"
    THEN <<history[Len(history)], record>>
    ELSE <<record>>

\* what is kept while the next call is in progress
Forget(history, op) ==
    IF history # <<>> /\ op = "generate_embedding"
       /\ history[Len(history)].op = "generate_embedding"
    THEN <<history[Len(history)]>>
    ELSE <<>>

CachedKeys(cache) == { h \in HashValues : cache[h] # NotCached }

\* ---- generate_embedding: lines 27-68 ----

\* the result is returned without being stored
CacheStoreSkipped(cache, text, embedding) == cache

\* line 59: self._embedding_cache[text_hash] = embedding
CacheStore(cache, text, embedding) ==
    [cache EXCEPT ![Hash(text)] = embedding]

GenerateEmbeddingRecord(text, result, backend_calls, cache_before) ==
    [op |-> "generate_embedding", texts |-> <<text>>, result |-> <<result>>,
     backend_calls |-> backend_calls, sent |-> <<>>,
     failed_batches |-> {}, batch_size |-> 1,
     cache_before |-> cache_before]

\* lines 37-46: empty text and cache hit return at once; a miss suspends at
\* the backend call of line 50
GenerateEmbeddingCall ==
    /\ emb_pc = "idle"
    /\ emb_calls_started < MaxEmbCalls
    /\ emb_calls_started' = emb_calls_started + 1
    /\ \E text \in RawTexts :
          IF Strip(text) = ""
          THEN /\ emb_history' =
                      Remember(emb_history,
                               GenerateEmbeddingRecord(
                                   text, ZeroVector, 0,
                                   CachedKeys(embedding_cache)))
               /\ UNCHANGED <<embedding_cache, cache_hits, cache_misses,
                              emb_pc, emb_call>>
          ELSE IF InCache(embedding_cache, Strip(text))
          THEN /\ cache_hits' = cache_hits + 1
               /\ emb_history' =
                      Remember(emb_history,
                               GenerateEmbeddingRecord(
                                   text,
                                   embedding_cache[Hash(Strip(text))], 0,
                                   CachedKeys(embedding_cache)))
               /\ UNCHANGED <<embedding_cache, cache_misses, emb_pc,
                              emb_call>>
          ELSE /\ emb_pc' = "ge_await"
               /\ emb_call' = [op |-> "generate_embedding", text |-> text,
                               cache_before |->
                                   CachedKeys(embedding_cache)]
               /\ emb_history' = Forget(emb_history, "generate_embedding")
               /\ UNCHANGED <<embedding_cache, cache_hits, cache_misses>>
    /\ UNCHANGED notEmbVars

\* lines 50-68: the backend answers or fails
GenerateEmbeddingResponse ==
    /\ emb_pc = "ge_await"
    /\ \E ok \in BOOLEAN :
          LET text == Strip(emb_call.text)
          IN  IF ok
              THEN /\ embedding_cache' =
                          CacheStore(embedding_cache, text, EmbeddingOf(text))
                   /\ cache_misses' = cache_misses + 1
                   /\ emb_history' =
                          Remember(emb_history,
                                   GenerateEmbeddingRecord(
                                       emb_call.text, EmbeddingOf(text), 1,
                                       emb_call.cache_before))
              ELSE /\ emb_history' =
                          Remember(emb_history,
                                   GenerateEmbeddingRecord(
                                       emb_call.text, ZeroVector, 1,
                                       emb_call.cache_before))
                   /\ UNCHANGED <<embedding_cache, cache_misses>>
    /\ emb_pc' = "idle"
    /\ emb_call' = NoEmbCall
    /\ UNCHANGED <<cache_hits, emb_calls_started>>
    /\ UNCHANGED notEmbVars

\* clear_cache: lines 208-213
ClearCache ==
    /\ emb_pc = "idle"
    /\ emb_history # <<>>
    /\ emb_history[Len(emb_history)].op # "clear_cache"
    /\ embedding_cache' = [h \in HashValues |-> NotCached]
    /\ cache_hits' = 0
    /\ cache_misses' = 0
    /\ emb_history' =
           Remember(emb_history,
                    [op |-> "clear_cache", texts |-> <<>>, result |-> <<>>,
                     backend_calls |-> 0, sent |-> <<>>,
                     failed_batches |-> {}, batch_size |-> 1,
                     cache_before |-> CachedKeys(embedding_cache)])
    /\ UNCHANGED <<emb_pc, emb_call, emb_calls_started>>
    /\ UNCHANGED notEmbVars

\* ---- generate_batch_embeddings and _process_batch: lines 70-165 ----

\* the lists of texts tried
TextLists == UNION { [1..n -> RawTexts] : n \in 0..MaxTexts }

\* line 108: [text.strip() for text in batch if text and text.strip()]
RECURSIVE ValidTexts(_)
ValidTexts(batch) ==
    IF batch = <<>> THEN <<>>
    ELSE IF Strip(Head(batch)) # ""
         THEN <<Strip(Head(batch))>> \o ValidTexts(Tail(batch))
         ELSE ValidTexts(Tail(batch))

\* lines 117-123: the texts of valid_texts whose hash is not in the cache
RECURSIVE UncachedTexts(_, _)
UncachedTexts(valid_texts, cache) ==
    IF valid_texts = <<>> THEN <<>>
    ELSE IF InCache(cache, Head(valid_texts))
         THEN UncachedTexts(Tail(valid_texts), cache)
         ELSE <<Head(valid_texts)>> \o UncachedTexts(Tail(valid_texts), cache)

\* lines 117-121: the dict cached_embeddings, and the number of hits counted
CachedEmbeddings(valid_texts, cache) ==
    [t \in { valid_texts[i] : i \in { j \in 1..Len(valid_texts) :
                                        InCache(cache, valid_texts[j]) } }
        |-> cache[Hash(t)]]

HitCount(valid_texts, cache) ==
    Cardinality({ j \in 1..Len(valid_texts) : InCache(cache, valid_texts[j]) })

SeqRange(seq) == { seq[i] : i \in 1..Len(seq) }

\* lines 135-148: the dict new_embeddings after the backend call
NewEmbeddings(uncached_texts, ok) ==
    [t \in SeqRange(uncached_texts) |->
        IF ok THEN EmbeddingOf(t) ELSE ZeroVector]

\* lines 139-141: every new embedding is stored under the hash of its text
RECURSIVE CacheAll(_, _, _)
CacheAll(cache, uncached_texts, new_embeddings) ==
    IF uncached_texts = <<>> THEN cache
    ELSE CacheAll([cache EXCEPT ![Hash(Head(uncached_texts))] =
                       new_embeddings[Head(uncached_texts)]],
                  Tail(uncached_texts), new_embeddings)

\* the vectors of a failed call are stored as well
CacheAfterResponseAlways(cache, uncached_texts, new_embeddings, ok) ==
    CacheAll(cache, uncached_texts, new_embeddings)

\* lines 128-148: the cache is written in the try block only, so a failed
\* backend call leaves it as it was
CacheAfterResponse(cache, uncached_texts, new_embeddings, ok) ==
    IF ok THEN CacheAll(cache, uncached_texts, new_embeddings) ELSE cache

\* the cached vectors first, then the others
CombineCachedFirst(batch, cached_embeddings, new_embeddings) ==
    LET text(i) == Strip(batch[i])
        hits == { i \in 1..Len(batch) : text(i) \in DOMAIN cached_embeddings }
        rest == (1..Len(batch)) \ hits
        \* the k-th smallest element of a set of positions
        Nth(set, k) == CHOOSE i \in set :
                          Cardinality({ j \in set : j < i }) = k - 1
        source(k) == IF k <= Cardinality(hits) THEN Nth(hits, k)
                     ELSE Nth(rest, k - Cardinality(hits))
    IN  [k \in 1..Len(batch) |->
            IF text(source(k)) \in DOMAIN cached_embeddings
            THEN cached_embeddings[text(source(k))]
            ELSE IF text(source(k)) \in DOMAIN new_embeddings
            THEN new_embeddings[text(source(k))]
            ELSE ZeroVector]

\* lines 150-161: one vector per text of the batch, in the order of the batch
CombineInOrder(batch, cached_embeddings, new_embeddings) ==
    [i \in 1..Len(batch) |->
        LET text == Strip(batch[i])
        IN  IF text \in DOMAIN cached_embeddings THEN cached_embeddings[text]
            ELSE IF text \in DOMAIN new_embeddings THEN new_embeddings[text]
            ELSE ZeroVector]

\* texts[i:i + batch_size], i counted from 0
BatchAt(texts, i, batch_size) ==
    SubSeq(texts, i + 1, Min2(i + batch_size, Len(texts)))

\* number of the batch that starts at offset i
BatchNumber(i, batch_size) == (i \div batch_size) + 1

BatchRecord(call, embeddings) ==
    [op |-> "generate_batch_embeddings", texts |-> call.texts,
     result |-> embeddings, backend_calls |-> Len(call.sent),
     sent |-> call.sent, failed_batches |-> call.failed_batches,
     batch_size |-> call.batch_size, cache_before |-> call.cache_before]

\* lines 85-90
GenerateBatchCall ==
    /\ emb_pc = "idle"
    /\ emb_calls_started < MaxEmbCalls
    /\ emb_calls_started' = emb_calls_started + 1
    /\ \E texts \in TextLists, bs \in BatchSizeChoices :
          LET call == [op |-> "generate_batch_embeddings",
                       texts |-> texts,
                       batch_size |-> IF bs = 0 THEN max_batch_size ELSE bs,
                       i |-> 0,
                       embeddings |-> <<>>,
                       uncached_texts |-> <<>>,
                       cached_embeddings |-> <<>>,
                       sent |-> <<>>,
                       failed_batches |-> {},
                       cache_before |-> CachedKeys(embedding_cache)]
          IN  IF texts = <<>>
              THEN /\ emb_history' =
                          Remember(emb_history, BatchRecord(call, <<>>))
                   /\ UNCHANGED <<emb_pc, emb_call>>
              ELSE /\ emb_pc' = "gb_batch"
                   /\ emb_call' = call
                   /\ emb_history' =
                          Forget(emb_history, "generate_batch_embeddings")
    /\ UNCHANGED <<embedding_cache, cache_hits, cache_misses>>
    /\ UNCHANGED notEmbVars

\* lines 95-102: the vectors of a batch are appended; the loop goes on to
\* the next batch (after asyncio.sleep) or the call returns
FinishBatch(call, batch_embeddings) ==
    LET embeddings == call.embeddings \o batch_embeddings
    IN  IF call.i + call.batch_size < Len(call.texts)
        THEN /\ emb_pc' = "gb_batch"
             /\ emb_call' = [call EXCEPT !.embeddings = embeddings,
                                         !.i = call.i + call.batch_size,
                                         !.uncached_texts = <<>>,
                                         !.cached_embeddings = <<>>]
             /\ UNCHANGED emb_history
        ELSE /\ emb_pc' = "idle"
             /\ emb_call' = NoEmbCall
             /\ emb_history' =
                    Remember(emb_history, BatchRecord(call, embeddings))

\* _process_batch up to its backend call: lines 104-133
ProcessBatchBegin ==
    /\ emb_pc = "gb_batch"
    /\ LET batch == BatchAt(emb_call.texts, emb_call.i, emb_call.batch_size)
           valid_texts == ValidTexts(batch)
           uncached_texts == UncachedTexts(valid_texts, embedding_cache)
           cached_embeddings == CachedEmbeddings(valid_texts, embedding_cache)
       IN  IF valid_texts = <<>>
           THEN /\ FinishBatch(emb_call,
                               [i \in 1..Len(batch) |-> ZeroVector])
                /\ UNCHANGED cache_hits
           ELSE /\ cache_hits' =
                       cache_hits + HitCount(valid_texts, embedding_cache)
                /\ IF uncached_texts = <<>>
                   THEN FinishBatch(emb_call,
                                    CombineInOrder(batch, cached_embeddings,
                                                   <<>>))
                   ELSE /\ emb_pc' = "gb_await"
                        /\ emb_call' =
                               [emb_call EXCEPT
                                   !.uncached_texts = uncached_texts,
                                   !.cached_embeddings = cached_embeddings,
                                   !.sent = Append(emb_call.sent,
                                                   uncached_texts)]
                        /\ UNCHANGED emb_history
    /\ UNCHANGED <<embedding_cache, cache_misses, emb_calls_started>>
    /\ UNCHANGED notEmbVars

\* _process_batch from the answer of the backend: lines 135-161
ProcessBatchResponse ==
    /\ emb_pc = "gb_await"
    /\ \E ok \in BOOLEAN :
          LET batch == BatchAt(emb_call.texts, emb_call.i,
                               emb_call.batch_size)
              new_embeddings == NewEmbeddings(emb_call.uncached_texts, ok)
              call == IF ok THEN emb_call
                      ELSE [emb_call EXCEPT
                               !.failed_batches =
                                   emb_call.failed_batches \cup
                                   {BatchNumber(emb_call.i,
                                                emb_call.batch_size)}]
          IN  /\ embedding_cache' =
                     CacheAfterResponse(embedding_cache,
                                        emb_call.uncached_texts,
                                        new_embeddings, ok)
              /\ cache_misses' =
                     IF ok THEN cache_misses + Len(emb_call.uncached_texts)
                     ELSE cache_misses
              /\ FinishBatch(call,
                             CombineInOrder(batch, call.cached_embeddings,
                                            new_embeddings))
    /\ UNCHANGED <<cache_hits, emb_calls_started>>
    /\ UNCHANGED notEmbVars

(***************************************************************************)
(* VectorSearchService called on its own: hybrid_search of                 *)
(* vector_search_service.py, and semantic_search and the fusion loop of    *)
(* vector_search_service_fixed.py.                                         *)
(***************************************************************************)
\* the rows of document_chunks the hybrid_search calls are tried on: found
\* by the vector leg only, by both legs, by the keyword leg only, with and
\* without a metadata object
FusionRowKinds ==
    { r \in RowKinds : r.words = 20 /\ (r.vsim # 900 \/ r.kcount # 0) }

FusionCorpora ==
    UNION { [1..n -> FusionRowKinds] : n \in 0..MaxCorpus }

\* the limit arguments tried
LimitChoices == {1, 2}

\* (vector_weight, keyword_weight) in tenths: the defaults 0.7/0.3 and 0.5/0.5
WeightChoices == { <<7, 3>>, <<5, 5>> }

\* assistant_key: None ("none") or an assistant
AssistantKeys == {"none", "a1"}

\* embeddings as vectors of two coordinates; <<0, 0>> is the zero vector
\* [0.0] * dimensions of a failed generation
EmbeddingVectors == { <<0, 0>>, <<1, 0>>, <<0, 1>>, <<-1, 0>>, <<3, 4>> }

\* similarity_threshold arguments (x1000); 0 stands for None and for 0.0,
\* both of which select default_similarity_threshold at line 61
ThresholdChoices == {0, 300, 700, -500}

\* rows of document_chunks as _search_document_chunks_direct reads them:
\* the embedding column (<<>>: no embedding) and the metadata column
DirectRowKinds ==
    { [embedding |-> v, meta |-> "ok"] : v \in EmbeddingVectors \cup {<<>>} }
    \cup { [embedding |-> <<1, 0>>, meta |-> "null"] }

DirectTables ==
    UNION { [1..n -> DirectRowKinds] : n \in 0..MaxCorpus }

\* what _search_training_data_direct returns (similarity x1000)
TrainingResultChoices ==
    { <<>>,
      << [chunk_id |-> 0, similarity |-> 500, embedding |-> <<>>,
          source |-> "training_data"] >> }

Dot(a, b) == a[1] * b[1] + a[2] * b[2]

\* np.linalg.norm, exact on the vectors used
Norm(a) ==
    LET n == Dot(a, a)
    IN  CHOOSE r \in 0..n : r * r <= n /\ (r + 1) * (r + 1) > n

\* _cosine_similarity of vector_search_service_fixed.py: lines 161-191
CosineSimilarity(vec1, vec2) ==
    IF Norm(vec1) = 0 \/ Norm(vec2) = 0 THEN 0
    ELSE (Dot(vec1, vec2) * 1000) \div (Norm(vec1) * Norm(vec2))

\* the loop of lines 122-149 over rows i..Len(rows): a row with no
\* embedding or below the threshold is skipped, metadata.get on a NULL
\* metadata raises
RECURSIVE DirectMatches(_, _, _, _)
DirectMatches(query_embedding, rows, i, similarity_threshold) ==
    IF i > Len(rows) THEN Returned(<<>>)
    ELSE LET item == rows[i]
             rest == DirectMatches(query_embedding, rows, i + 1,
                                   similarity_threshold)
             similarity == CosineSimilarity(query_embedding, item.embedding)
         IN  IF item.embedding = <<>> THEN rest
             ELSE IF similarity < similarity_threshold THEN rest
             ELSE IF item.meta = "null" THEN Raised
             ELSE IF rest.raised THEN Raised
             ELSE Returned(<< [chunk_id |-> i, similarity |-> similarity,
                               embedding |-> item.embedding,
                               source |-> "document_chunks"] >>
                           \o rest.results)

\* _search_document_chunks_direct: lines 93-159
SearchDocumentChunksDirect(query_embedding, rows, limit, threshold, db_ok) ==
    IF ~db_ok \/ rows = <<>> THEN <<>>
    ELSE LET found == DirectMatches(query_embedding, rows, 1, threshold)
         IN  IF found.raised THEN <<>>
             ELSE Take(SortDesc(found.results), limit)

\* [r for r in results if r.similarity >= threshold]
RECURSIVE AtOrAboveThreshold(_, _)
AtOrAboveThreshold(results, threshold) ==
    IF results = <<>> THEN <<>>
    ELSE IF Head(results).similarity >= threshold
         THEN <<Head(results)>> \o AtOrAboveThreshold(Tail(results), threshold)
         ELSE AtOrAboveThreshold(Tail(results), threshold)

\* semantic_search of vector_search_service_fixed.py: lines 41-91
SemanticSearchFixed(query_embedding, rows, limit, similarity_threshold, training_results, db_ok) ==
    IF Norm(query_embedding) = 0 THEN <<>>
    ELSE LET threshold == IF similarity_threshold = 0
                          THEN default_similarity_threshold
                          ELSE similarity_threshold
             results ==
                 SearchDocumentChunksDirect(query_embedding, rows, limit,
                                            threshold, db_ok)
                 \o training_results
         IN  Take(AtOrAboveThreshold(SortDesc(results), threshold), limit)

\* lines 288-295 of vector_search_service_fixed.py:
\* result.similarity = result.similarity * weight
ScaleResults(results, weight) ==
    [i \in 1..Len(results) |->
        [results[i] EXCEPT !.similarity = (@ * weight) \div 10]]

\* lines 298-304: the first result of every doc_id/chunk_id key is kept
RECURSIVE UniqueResults(_, _)
UniqueResults(combined_results, unique_results) ==
    IF combined_results = <<>> THEN unique_results
    ELSE LET r == Head(combined_results)
             seen == \E j \in 1..Len(unique_results) :
                        /\ unique_results[j].chunk_id = r.chunk_id
                        /\ unique_results[j].doc_id = r.doc_id
         IN  UniqueResults(Tail(combined_results),
                           IF seen THEN unique_results
                           ELSE Append(unique_results, r))

\* the fusion of hybrid_search in vector_search_service_fixed.py: lines 284-310
CombineFixed(vector_results, keyword_results, vector_w, keyword_w, limit) ==
    Take(SortDesc(UniqueResults(ScaleResults(vector_results, vector_w)
                                \o ScaleResults(keyword_results, keyword_w),
                                <<>>)),
         limit)

NoSearchCall == [op |-> "none"]

InitSearch ==
    /\ hs_pc = "idle"
    /\ hs_call = NoSearchCall
    /\ hs_result = NoSearchCall

\* a caller enters hybrid_search
HybridSearchCall ==
    /\ hs_pc = "idle"
    /\ \E q \in Queries, corpus \in FusionCorpora, akey \in AssistantKeys,
          limit \in LimitChoices, w \in WeightChoices, env \in SearchEnvs :
          hs_call' = [op |-> "hybrid_search", query |-> q, corpus |-> corpus,
                      assistant_key |-> akey, limit |-> limit,
                      vector_weight |-> w[1], keyword_weight |-> w[2],
                      env |-> env]
    /\ hs_pc' = "hybrid_search"
    /\ hs_result' = NoSearchCall
    /\ UNCHANGED notSearchVars

\* hybrid_search runs its two legs, fuses them and returns (lines 297-325);
\* fixed_fusion is what the fusion loop of vector_search_service_fixed.py
\* makes of the same two lists
HybridSearchReturn ==
    /\ hs_pc = "hybrid_search"
    /\ LET c == hs_call
           vector_results ==
               SemanticSearch(c.query, c.corpus, c.limit * 2, 500,
                              c.env.embed_ok, c.env.rpc_ok)
           keyword_results ==
               KeywordSearch(c.query, c.corpus, c.assistant_key, c.limit * 2,
                             c.env.kw_ok)
           combined_results ==
               CombineSearchResults(vector_results, keyword_results,
                                    c.vector_weight, c.keyword_weight)
       IN  hs_result' =
               [op |-> "hybrid_search",
                vector_results |-> vector_results,
                keyword_results |-> keyword_results,
                combined_results |-> combined_results,
                results |-> HybridSearch(c.query, c.corpus, c.assistant_key,
                                         c.limit, c.vector_weight,
                                         c.keyword_weight, c.env),
                fixed_fusion |-> CombineFixed(vector_results, keyword_results,
                                              c.vector_weight,
                                              c.keyword_weight, c.limit)]
    /\ hs_pc' = "returned"
    /\ UNCHANGED hs_call
    /\ UNCHANGED notSearchVars

\* a caller enters semantic_search of vector_search_service_fixed.py;
\* query_embedding is what generate_embedding gives for the query
SemanticSearchFixedCall ==
    /\ hs_pc = "idle"
    /\ \E qe \in EmbeddingVectors, rows \in DirectTables,
          limit \in LimitChoices, t \in ThresholdChoices,
          tr \in TrainingResultChoices, db_ok \in BOOLEAN :
          hs_call' = [op |-> "semantic_search_fixed", query_embedding |-> qe,
                      rows |-> rows, limit |-> limit,
                      similarity_threshold |-> t, training_results |-> tr,
                      db_ok |-> db_ok]
    /\ hs_pc' = "semantic_search_fixed"
    /\ hs_result' = NoSearchCall
    /\ UNCHANGED notSearchVars

SemanticSearchFixedReturn ==
    /\ hs_pc = "semantic_search_fixed"
    /\ hs_result' =
           [op |-> "semantic_search_fixed",
            results |-> SemanticSearchFixed(hs_call.query_embedding,
                                            hs_call.rows, hs_call.limit,
                                            hs_call.similarity_threshold,
                                            hs_call.training_results,
                                            hs_call.db_ok)]
    /\ hs_pc' = "returned"
    /\ UNCHANGED hs_call
    /\ UNCHANGED notSearchVars

\* the SearchResult objects of a leg list handed to the fusion: three
\* (doc_id, chunk_id) identities, two scores
LegResultKinds(source) ==
    { [chunk_id |-> id[2], doc_id |-> id[1], similarity |-> sim,
       words |-> 20, metadata |-> "ok", source |-> source] :
         id \in { <<"doc", 1>>, <<"doc", 2>>, <<"doc2", 1>> },
         sim \in {400, 800} }

\* leg lists: any order, any overlap, the same identity more than once
LegLists(source) ==
    UNION { [1..n -> LegResultKinds(source)] : n \in 0..MaxLegLen }

\* the limit arguments tried on the fusion (10 is the default)
FusionLimitChoices == {2, 10}

\* the fusion of hybrid_search is given two leg lists
\* (vector_search_service.py lines 312-320, ..._fixed.py lines 284-310)
FusionCall ==
    /\ hs_pc = "idle"
    /\ \E vector_results \in LegLists("document_chunks"),
          keyword_results \in LegLists("keyword_search"),
          limit \in FusionLimitChoices, w \in WeightChoices :
          hs_call' = [op |-> "fusion", vector_results |-> vector_results,
                      keyword_results |-> keyword_results, limit |-> limit,
                      vector_weight |-> w[1], keyword_weight |-> w[2]]
    /\ hs_pc' = "fusion"
    /\ hs_result' = NoSearchCall
    /\ UNCHANGED notSearchVars

\* combined_results = self._combine_search_results(...) and
\* final_results = combined_results[:limit]; fixed_fusion is the list the
\* loop of vector_search_service_fixed.py returns for the same legs
FusionReturn ==
    /\ hs_pc = "fusion"
    /\ LET c == hs_call
           combined_results ==
               CombineSearchResults(c.vector_results, c.keyword_results,
                                    c.vector_weight, c.keyword_weight)
       IN  hs_result' =
               [op |-> "fusion",
                vector_results |-> c.vector_results,
                keyword_results |-> c.keyword_results,
                combined_results |-> combined_results,
                results |-> IF combined_results.raised THEN <<>>
                            ELSE Take(combined_results.results, c.limit),
                fixed_fusion |-> CombineFixed(c.vector_results,
                                              c.keyword_results,
                                              c.vector_weight,
                                              c.keyword_weight, c.limit)]
    /\ hs_pc' = "returned"
    /\ UNCHANGED hs_call
    /\ UNCHANGED notSearchVars


(***************************************************************************)
(* ChunkProcessor  (chunk_processor.py)                                    *)
(*                                                                         *)
(* A sentence is the sequence of the token counts of its clauses (the      *)
(* parts re.split(r'[,;]') gives); a raw chunk is the sequence of the      *)
(* units joined into it, each with its place in the text and its token     *)
(* count.  _count_tokens of a join is taken as the sum of the counts of    *)
(* its units.                                                              *)
(***************************************************************************)
\* chunk_processor.py:33  self.max_chunk_tokens = 500
max_chunk_tokens == 500
\* chunk_processor.py:35  self.min_chunk_tokens = 50
min_chunk_tokens == 50

\* the sentences tried: below min_chunk_tokens, two ordinary ones, one above
\* the limit made of two clauses, one above the limit with no clause to split
SentenceKinds == { <<30>>, <<150>>, <<300>>, <<300, 300>>, <<700>> }

\* token counts of the Q:/A: segments of a dialogue
QAKinds == { 60, 300, 600 }

\* a "Q: ..." / "A: ..." segment: its tokens, and whether its words are
\* free of the letters q and a
SegmentKinds == [tokens : QAKinds, plain : BOOLEAN]

\* how the lines of a document are laid out: the number of markdown header
\* lines, of list-item lines and of "Name: ..." lines, and what the first
\* line is
LayoutKinds ==
    { [header_lines |-> 0, list_lines |-> 0, speaker_lines |-> 0,
       first_line |-> "prose"],
      [header_lines |-> 1, list_lines |-> 0, speaker_lines |-> 0,
       first_line |-> "header"],
      [header_lines |-> 3, list_lines |-> 0, speaker_lines |-> 0,
       first_line |-> "header"],
      [header_lines |-> 3, list_lines |-> 6, speaker_lines |-> 0,
       first_line |-> "prose"],
      [header_lines |-> 0, list_lines |-> 6, speaker_lines |-> 0,
       first_line |-> "list"],
      [header_lines |-> 0, list_lines |-> 0, speaker_lines |-> 6,
       first_line |-> "speaker"] }

\* the text argument: None, "", whitespace only, or a document.  qa_marks is
\* the number of "Q:" / "A:" marks, segments what follows each of them, and
\* sentences what the sentence pattern splits the cleaned text into.
ProseTexts ==
    { [kind |-> "text", layout |-> l, qa_marks |-> 0, segments |-> <<>>,
       sentences |-> x] :
        l \in LayoutKinds,
        x \in UNION { [1..n -> SentenceKinds] : n \in 1..MaxSentences } }

DialogueTexts ==
    { [kind |-> "text", layout |-> l, qa_marks |-> Len(g), segments |-> g,
       sentences |-> << <<150>>, <<300>> >>] :
        l \in { k \in LayoutKinds : k.first_line = "prose" },
        g \in UNION { [1..n -> SegmentKinds] : n \in 4..(MaxSentences + 1) } }

NoText(kind) ==
    [kind |-> kind,
     layout |-> [header_lines |-> 0, list_lines |-> 0, speaker_lines |-> 0,
                 first_line |-> "prose"],
     qa_marks |-> 0, segments |-> <<>>, sentences |-> <<>>]

ChunkTexts ==
    { NoText("none"), NoText("empty"), NoText("blank") }
    \cup ProseTexts \cup DialogueTexts

\* the metadata argument: None or a dict
MetadataChoices == {"none", "dict"}

\* a guard that only looks at the characters of the text
EmptyTextGuardStringsOnly(text) == text.kind \in {"empty", "blank"}

\* line 62: not text or not text.strip()
EmptyTextGuard(text) == text.kind \in {"none", "empty", "blank"}

\* _clean_text: lines 112-128.  re.sub(r'\s+', ' ', text) of line 115 turns
\* every line break into a space, so the cleaned text is one line: the
\* patterns anchored at line starts (header, list item, speaker) can only
\* match at the start of the text.  The "Q:" / "A:" marks are kept.
CleanText(text) ==
    [header_count |-> IF text.layout.first_line = "header" THEN 1 ELSE 0,
     list_count |-> IF text.layout.first_line = "list" THEN 1 ELSE 0,
     dialogue_patterns |-> IF text.layout.first_line = "speaker" THEN 1
                           ELSE 0,
     qa_patterns |-> text.qa_marks,
     segments |-> text.segments,
     sentences |-> text.sentences]

\* _determine_strategy: lines 130-147 (paragraph_count is not used)
DetermineStrategy(clean_text) ==
    IF clean_text.qa_patterns > 3 \/ clean_text.dialogue_patterns > 5
    THEN "conversational"
    ELSE IF clean_text.header_count > 2 \/ clean_text.list_count > 5
    THEN "structured"
    ELSE "semantic"

\* A unit of a chunk: sentence (or segment) s of the cleaned text, as a
\* whole (p = 0) or its clause p, with its token count.
RECURSIVE UnitsTokens(_)
UnitsTokens(units) ==
    IF units = <<>> THEN 0 ELSE Head(units).tokens + UnitsTokens(Tail(units))

\* self.sentence_endings.split(text): the sentences with their positions
SentencesOf(clean_text) ==
    [i \in 1..Len(clean_text.sentences) |->
        [s |-> i, clauses |-> clean_text.sentences[i]]]

\* re.split(r'[,;]', sentence) of line 256
SubParts(sentence) ==
    [j \in 1..Len(sentence.clauses) |->
        [s |-> sentence.s, p |-> j, tokens |-> sentence.clauses[j]]]

\* lines 256-269: the clauses of a sentence above the limit
RECURSIVE SplitLongSentence(_, _, _, _)
SplitLongSentence(sub_parts, temp_chunk, temp_tokens, chunks) ==
    IF sub_parts = <<>>
    THEN [chunks |-> chunks, temp_chunk |-> temp_chunk,
          temp_tokens |-> temp_tokens]
    ELSE LET part_tokens == Head(sub_parts).tokens
         IN  IF temp_tokens + part_tokens <= max_chunk_tokens
             THEN SplitLongSentence(Tail(sub_parts),
                                    Append(temp_chunk, Head(sub_parts)),
                                    temp_tokens + part_tokens, chunks)
             ELSE SplitLongSentence(Tail(sub_parts), <<Head(sub_parts)>>,
                                    part_tokens,
                                    IF temp_chunk # <<>>
                                    THEN Append(chunks, temp_chunk)
                                    ELSE chunks)

\* current_chunk[-2:] if len(current_chunk) > 2 else current_chunk
OverlapSentences(current_chunk) ==
    IF Len(current_chunk) > 2
    THEN SubSeq(current_chunk, Len(current_chunk) - 1, Len(current_chunk))
    ELSE current_chunk

\* the loop of lines 246-294
RECURSIVE SentenceLoop(_, _, _, _)
SentenceLoop(sentences, chunks, current_chunk, current_tokens) ==
    IF sentences = <<>>
    THEN IF current_chunk # <<>> THEN Append(chunks, current_chunk)
         ELSE chunks
    ELSE LET sentence == Head(sentences)
             sentence_tokens == SeqSum(sentence.clauses)
             whole == [s |-> sentence.s, p |-> 0, tokens |-> sentence_tokens]
         IN  IF sentence_tokens > max_chunk_tokens
             THEN LET split ==
                          SplitLongSentence(
                              SubParts(sentence), <<>>, 0,
                              IF current_chunk # <<>>
                              THEN Append(chunks, current_chunk)
                              ELSE chunks)
                  IN  SentenceLoop(Tail(sentences), split.chunks,
                                   split.temp_chunk, split.temp_tokens)
             ELSE IF current_tokens + sentence_tokens > max_chunk_tokens
                     /\ current_chunk # <<>>
             THEN LET restart == Append(OverlapSentences(current_chunk),
                                        whole)
                  IN  SentenceLoop(Tail(sentences),
                                   Append(chunks, current_chunk),
                                   restart, UnitsTokens(restart))
             ELSE SentenceLoop(Tail(sentences), chunks,
                               Append(current_chunk, whole),
                               current_tokens + sentence_tokens)

\* _chunk_by_sentences: lines 237-296
ChunkBySentences(clean_text) ==
    SentenceLoop(SentencesOf(clean_text), <<>>, <<>>, 0)

\* line 193: re.finditer(r'[QA]:\s*([^QA]*?)(?=[QA]:|$)', text, IGNORECASE |
\* DOTALL).  The group takes no q and no a of either case, so a match
\* starts at a mark only when nothing between it and the next mark (or the
\* end of the text) holds one of these letters.
RECURSIVE QAMatches(_, _)
QAMatches(segments, i) ==
    IF i > Len(segments) THEN <<>>
    ELSE IF segments[i].plain
    THEN << [s |-> i, p |-> 0, tokens |-> segments[i].tokens] >>
         \o QAMatches(segments, i + 1)
    ELSE QAMatches(segments, i + 1)

\* the loop of lines 201-230
RECURSIVE DialogueLoop(_, _, _, _)
DialogueLoop(qa_matches, chunks, current_chunk, current_tokens) ==
    IF qa_matches = <<>>
    THEN IF current_chunk # <<>> THEN Append(chunks, current_chunk)
         ELSE chunks
    ELSE LET qa_tokens == Head(qa_matches).tokens
         IN  IF current_tokens + qa_tokens <= max_chunk_tokens
             THEN DialogueLoop(Tail(qa_matches), chunks,
                               Append(current_chunk, Head(qa_matches)),
                               current_tokens + qa_tokens)
             ELSE DialogueLoop(Tail(qa_matches),
                               IF current_chunk # <<>>
                               THEN Append(chunks, current_chunk)
                               ELSE chunks,
                               <<Head(qa_matches)>>, qa_tokens)

\* _chunk_by_dialogue: lines 188-235
ChunkByDialogue(clean_text) ==
    IF QAMatches(clean_text.segments, 1) # <<>>
    THEN DialogueLoop(QAMatches(clean_text.segments, 1), <<>>, <<>>, 0)
    ELSE ChunkBySentences(clean_text)

\* the units of a whole section kept as one chunk
SentenceTokens(sentences) ==
    [i \in 1..Len(sentences) |->
        [s |-> sentences[i].s, p |-> 0,
         tokens |-> SeqSum(sentences[i].clauses)]]

\* _chunk_by_structure: lines 149-186, on a text of one line: the header
\* pattern takes the line from its "#", what is left is one section
ChunkByStructure(clean_text) ==
    IF clean_text.header_count > 0 THEN <<>>
    ELSE IF UnitsTokens(SentenceTokens(SentencesOf(clean_text)))
               <= max_chunk_tokens
    THEN << SentenceTokens(SentencesOf(clean_text)) >>
    ELSE ChunkBySentences(clean_text)

\* lines 81-107: chunks below min_chunk_tokens are skipped, chunk_index is
\* the position among the raw chunks
RECURSIVE ProcessRawChunks(_, _)
ProcessRawChunks(raw_chunks, i) ==
    IF i > Len(raw_chunks) THEN <<>>
    ELSE IF UnitsTokens(raw_chunks[i]) < min_chunk_tokens
    THEN ProcessRawChunks(raw_chunks, i + 1)
    ELSE << [units |-> raw_chunks[i],
             chunk_index |-> i - 1,
             token_count |-> UnitsTokens(raw_chunks[i]),
             metadata |-> "dict"] >>
         \o ProcessRawChunks(raw_chunks, i + 1)

\* what smart_chunk_document returns when it has nothing to chunk
NoChunks(raised) ==
    [raised |-> raised, chunks |-> <<>>, chunk_strategy |-> "none",
     raw_chunks |-> <<>>]

\* smart_chunk_document: lines 47-110.  Past the guard of line 62,
\* _clean_text raises TypeError on a text that is None.
SmartChunkDocument(text, metadata) ==
    IF EmptyTextGuard(text) THEN NoChunks(FALSE)
    ELSE IF text.kind = "none" THEN NoChunks(TRUE)
    ELSE LET clean_text == CleanText(text)
             chunk_strategy == DetermineStrategy(clean_text)
             raw_chunks ==
                 IF chunk_strategy = "structured"
                 THEN ChunkByStructure(clean_text)
                 ELSE IF chunk_strategy = "conversational"
                 THEN ChunkByDialogue(clean_text)
                 ELSE ChunkBySentences(clean_text)
         IN  [raised |-> FALSE, chunks |-> ProcessRawChunks(raw_chunks, 1),
              chunk_strategy |-> chunk_strategy, raw_chunks |-> raw_chunks]

NoChunkCall == [op |-> "none"]

InitChunk ==
    /\ ck_pc = "idle"
    /\ ck_call = NoChunkCall
    /\ ck_result = NoChunkCall

\* a caller enters smart_chunk_document
SmartChunkCall ==
    /\ ck_pc = "idle"
    /\ \E text \in ChunkTexts, metadata \in MetadataChoices :
          ck_call' = [op |-> "smart_chunk_document", text |-> text,
                      metadata |-> metadata]
    /\ ck_pc' = "chunking"
    /\ ck_result' = NoChunkCall
    /\ UNCHANGED notChunkVars

\* smart_chunk_document returns its list, or raises
SmartChunkReturn ==
    /\ ck_pc = "chunking"
    /\ ck_result' = SmartChunkDocument(ck_call.text, ck_call.metadata)
    /\ ck_pc' = IF ck_result'.raised THEN "raised" ELSE "returned"
    /\ UNCHANGED ck_call
    /\ UNCHANGED notChunkVars

(***************************************************************************)
(* RAGPipeline.process_document_upload  (rag_pipeline.py, lines 57-145)    *)
(* with _chunk_document and _store_document_with_chunks.                   *)
(*                                                                         *)
(*   idle -> chunk -> embed -> store_document -> store_chunks -> finish    *)
(*             \__________________________________________________\-> done *)
(* up_io counts the calls made to the embedding backend and to the         *)
(* storage; up_store is what the storage holds of this upload.             *)
(***************************************************************************)
\* rag_pipeline.py:354  batch_size = 50
store_batch_size == 50

\* number of chunks smart_chunk_document makes of the content: none, one
\* storage batch, two batches, three batches
ChunkCountChoices == {0, 2, 60, 120}

\* the assistant_key argument: None, "" or an assistant
UploadAssistantKeys == {"none", "", "a1"}

\* tenant_id: None or a tenant
UploadTenants == {"none", "t1"}

\* what an insert(...).execute() does: returns the rows, returns no data,
\* or raises
InsertOutcomes == {"ok", "empty", "raise"}

NoUpload == [op |-> "none"]

NoIO == [embedding_calls |-> 0, document_inserts |-> 0, chunk_inserts |-> 0]

EmptyStore == [documents |-> 0, chunks |-> 0]

InitUpload ==
    /\ up_pc = "idle"
    /\ up_call = NoUpload
    /\ up_local = NoUpload
    /\ up_io = NoIO
    /\ up_store = EmptyStore
    /\ up_result = NoUpload

\* RAGProcessingResult
ProcessingResult(success, doc_id, created, stored, generated, message) ==
    [success |-> success, doc_id |-> doc_id, chunks_created |-> created,
     chunks_stored |-> stored, embeddings_generated |-> generated,
     error_message |-> message]

\* ceil(n / size): the number of batches range(0, n, size) walks through
BatchCount(n, size) == (n + size - 1) \div size

\* len(chunks[i:i + batch_size]) for the batch starting at position i
BatchLength(n, i, size) == Min2(size, n - i)

\* a caller enters process_document_upload; nothing is checked on entry
UploadCall ==
    /\ up_pc = "idle"
    /\ \E n \in ChunkCountChoices, akey \in UploadAssistantKeys,
          tenant \in UploadTenants :
          up_call' = [op |-> "process_document_upload", chunks |-> n,
                      assistant_key |-> akey, tenant_id |-> tenant]
    /\ up_pc' = "chunk"
    /\ up_local' = NoUpload
    /\ up_result' = NoUpload
    /\ UNCHANGED <<up_io, up_store>>
    /\ UNCHANGED notUploadVars

\* lines 85-97: chunking; no chunk ends the call with success=False
UploadChunk ==
    /\ up_pc = "chunk"
    /\ IF up_call.chunks = 0
       THEN /\ up_result' = ProcessingResult(FALSE, "none", 0, 0, 0,
                                             "No chunks created from document")
            /\ up_pc' = "done"
            /\ UNCHANGED up_local
       ELSE /\ up_local' = [chunks |-> up_call.chunks, embeddings_ok |-> 0,
                            doc_id |-> "none", stored_count |-> 0, i |-> 0,
                            stored |-> [doc_id |-> "none", count |-> 0]]
            /\ up_pc' = "embed"
            /\ UNCHANGED up_result
    /\ UNCHANGED <<up_call, up_io, up_store>>
    /\ UNCHANGED notUploadVars

\* lines 102-103: generate_batch_embeddings sends the chunk texts (none of
\* them cached) in batches of max_batch_size; a failed batch gives zero
\* vectors, and the call never raises
UploadEmbed ==
    /\ up_pc = "embed"
    /\ LET calls == BatchCount(up_local.chunks, max_batch_size)
       IN  \E ok \in [1..calls -> BOOLEAN] :
              /\ up_local' =
                     [up_local EXCEPT !.embeddings_ok =
                         SeqSum([b \in 1..calls |->
                                   IF ok[b]
                                   THEN BatchLength(up_local.chunks,
                                                    (b - 1) * max_batch_size,
                                                    max_batch_size)
                                   ELSE 0])]
              /\ up_io' = [up_io EXCEPT !.embedding_calls = @ + calls]
    /\ up_pc' = "store_document"
    /\ UNCHANGED <<up_call, up_store, up_result>>
    /\ UNCHANGED notUploadVars

\* lines 323-350 and 388-390: the document record; no data or an exception
\* makes _store_document_with_chunks return (None, 0)
UploadStoreDocument ==
    /\ up_pc = "store_document"
    /\ \E outcome \in InsertOutcomes :
          IF outcome = "ok"
          THEN /\ up_local' = [up_local EXCEPT !.doc_id = "doc1"]
               /\ up_store' = [up_store EXCEPT !.documents = @ + 1]
               /\ up_pc' = "store_chunks"
          ELSE /\ up_local' = [up_local EXCEPT
                                  !.stored = [doc_id |-> "none", count |-> 0]]
               /\ up_pc' = "finish"
               /\ UNCHANGED up_store
    /\ up_io' = [up_io EXCEPT !.document_inserts = @ + 1]
    /\ UNCHANGED <<up_call, up_result>>
    /\ UNCHANGED notUploadVars

\* lines 356-390: one batch of chunk records; after the last batch the
\* method returns (doc_id, stored_count), on an exception (None, 0)
UploadStoreBatch ==
    /\ up_pc = "store_chunks"
    /\ LET len == BatchLength(up_local.chunks, up_local.i, store_batch_size)
           last == up_local.i + store_batch_size >= up_local.chunks
       IN  \E outcome \in InsertOutcomes :
              LET count == IF outcome = "ok"
                           THEN up_local.stored_count + len
                           ELSE up_local.stored_count
              IN  /\ up_store' = IF outcome = "ok"
                                 THEN [up_store EXCEPT !.chunks = @ + len]
                                 ELSE up_store
                  /\ IF outcome = "raise"
                     THEN /\ up_local' =
                                 [up_local EXCEPT
                                     !.stored = [doc_id |-> "none",
                                                 count |-> 0]]
                          /\ up_pc' = "finish"
                     ELSE /\ up_local' =
                                 [up_local EXCEPT
                                     !.stored_count = count,
                                     !.i = @ + store_batch_size,
                                     !.stored =
                                         IF last
                                         THEN [doc_id |-> up_local.doc_id,
                                               count |-> count]
                                         ELSE @]
                          /\ up_pc' = IF last THEN "finish"
                                      ELSE "store_chunks"
    /\ up_io' = [up_io EXCEPT !.chunk_inserts = @ + 1]
    /\ UNCHANGED <<up_call, up_result>>
    /\ UNCHANGED notUploadVars

\* lines 118-130: whatever _store_document_with_chunks returned, the result
\* is built with success=True
UploadReturn ==
    /\ up_pc = "finish"
    /\ up_result' = ProcessingResult(TRUE, up_local.stored.doc_id,
                                     up_local.chunks, up_local.stored.count,
                                     up_local.embeddings_ok, "none")
    /\ up_pc' = "done"
    /\ UNCHANGED <<up_call, up_local, up_io, up_store>>
    /\ UNCHANGED notUploadVars

(***************************************************************************)
(* retrieve_context seen from the records it reads: which rows of the      *)
(* training tables and of document_chunks end up in the context of a call  *)
(* made for a tenant (rag_pipeline.py lines 180-212,                       *)
(* training_data_service.py, vector_search_service.py).  A row is the pair *)
(* of its owners; a context is the set of rows it is built from.           *)
(***************************************************************************)
Tenants == {"t1", "t2"}

\* who a row belongs to: the tenant_id and assistant_key columns
OwnerKinds == [tenant : Tenants, assistant_key : {"a1", "a2"}]

\* the contents of one table
TenantTables ==
    { rows \in SUBSET OwnerKinds : Cardinality(rows) <= MaxTenantRows }

\* the four tables retrieve_context reads
TenantStores ==
    [training_data : TenantTables, logic_notes : TenantTables,
     reference_materials : TenantTables, document_chunks : TenantTables]

\* _get_qa_context: lines 51-87; the tenant filter of lines 64-65 is
\* commented out
GetQAContext(training_data, akey, tenant_id) ==
    { r \in training_data : akey # "none" => r.assistant_key = akey }

\* _get_logic_notes_context: lines 89-116
GetLogicNotesContext(logic_notes, akey, tenant_id) ==
    { r \in logic_notes : akey # "none" => r.assistant_key = akey }

\* _get_reference_materials_context: lines 118-145
GetReferenceMaterialsContext(reference_materials, akey, tenant_id) ==
    { r \in reference_materials : akey # "none" => r.assistant_key = akey }

\* get_training_context: lines 14-49, the rows of its three parts
TrainingContextRows(store, akey, tenant_id) ==
    [qa |-> GetQAContext(store.training_data, akey, tenant_id),
     logic |-> GetLogicNotesContext(store.logic_notes, akey, tenant_id),
     reference |-> GetReferenceMaterialsContext(store.reference_materials,
                                                akey, tenant_id)]

\* the tenant_filter and assistant_key_filter parameters of the database
\* function match_document_chunks (lines 122-128)
MatchDocumentChunksFiltered(document_chunks, akey, tenant_id) ==
    { r \in document_chunks :
        /\ tenant_id # "none" => r.tenant = tenant_id
        /\ akey # "none" => r.assistant_key = akey }

\* _search_document_chunks: lines 121-153, with the metadata filter of
\* line 141
VectorLegRows(document_chunks, akey, tenant_id) ==
    { r \in MatchDocumentChunksFiltered(document_chunks, akey, tenant_id) :
        akey # "none" => r.assistant_key = akey }

\* _keyword_search: lines 343-373, .eq('tenant_id', tenant_id) and the
\* metadata filter of line 372
KeywordLegRows(document_chunks, akey, tenant_id) ==
    { r \in document_chunks :
        /\ tenant_id # "none" => r.tenant = tenant_id
        /\ akey # "none" => r.assistant_key = akey }

\* the rows behind the RAGContext of retrieve_context(query, assistant_key,
\* tenant_id): lines 180-212
ContextRows(store, akey, tenant_id) ==
    [training |-> TrainingContextRows(store, akey, tenant_id),
     chunks |-> VectorLegRows(store.document_chunks, akey, tenant_id)
                \cup KeywordLegRows(store.document_chunks, akey, tenant_id)]

NoTenantCall == [op |-> "none"]

InitTenant ==
    /\ tn_pc = "idle"
    /\ tn_call = NoTenantCall
    /\ tn_result = NoTenantCall

\* retrieve_context is called for a tenant, over any contents of the tables
TenantRetrieveCall ==
    /\ tn_pc = "idle"
    /\ \E store \in TenantStores, tenant_id \in Tenants,
          akey \in {"none", "a1", "a2"} :
          tn_call' = [op |-> "retrieve_context", store |-> store,
                      tenant_id |-> tenant_id, assistant_key |-> akey]
    /\ tn_pc' = "retrieving"
    /\ tn_result' = NoTenantCall
    /\ UNCHANGED notTenantVars

TenantRetrieveReturn ==
    /\ tn_pc = "retrieving"
    /\ tn_result' = ContextRows(tn_call.store, tn_call.assistant_key,
                                tn_call.tenant_id)
    /\ tn_pc' = "returned"
    /\ UNCHANGED tn_call
    /\ UNCHANGED notTenantVars

(***************************************************************************)
(* retrieve_context await by await  (rag_pipeline.py lines 147-283,        *)
(* vector_search_service.py lines 280-325).                                *)
(*                                                                         *)
(* Every await of an external call is a state in which the call is in      *)
(* flight; the call completes, fails, or is never answered (its            *)
(* completion step is never taken).                                        *)
(***************************************************************************)
\* the implementations of hybrid_search
SearchServices == {"vector_search_service", "vector_search_service_fixed"}

\* a leg that has completed or failed
LegOver(status) == status \in {"completed", "failed"}

NoLegs == [vector |-> "not_issued", keyword |-> "not_issued"]

\* hybrid_search line 299 (fixed: line 266) and semantic_search line 203:
\* the vector leg is called and awaited
IssueLegs(legs) == [legs EXCEPT !.vector = "in_flight"]

\* the await of line 299 has returned: with hybrid search line 308
\* (fixed: line 273) calls the keyword leg and awaits it
AfterVectorLeg(legs, outcome, hybrid) ==
    [legs EXCEPT !.vector = outcome,
                 !.keyword = IF hybrid /\ @ = "not_issued"
                             THEN "in_flight" ELSE @]

NoLegCall == [op |-> "none"]

InitLegs ==
    /\ lg_pc = "idle"
    /\ lg_call = NoLegCall
    /\ lg_legs = NoLegs
    /\ lg_result = NoLegCall

\* retrieve_context is called and awaits get_training_context (line 182)
LegsRetrieveCall ==
    /\ lg_pc = "idle"
    /\ \E q \in Queries, hybrid \in BOOLEAN, service \in SearchServices :
          lg_call' = [op |-> "retrieve_context", query |-> q,
                      use_hybrid_search |-> hybrid, service |-> service]
    /\ lg_pc' = "training"
    /\ UNCHANGED <<lg_legs, lg_result>>
    /\ UNCHANGED notLegVars

\* the training fetch is answered: the search is called (lines 192-209),
\* or the exception is caught at line 252 and the fetch of line 258 awaited
LegsTrainingCompletes ==
    /\ lg_pc = "training"
    /\ \E ok \in BOOLEAN :
          IF ok THEN /\ lg_pc' = "search"
                     /\ lg_legs' = IssueLegs(lg_legs)
                ELSE /\ lg_pc' = "fallback"
                     /\ UNCHANGED lg_legs
    /\ UNCHANGED <<lg_call, lg_result>>
    /\ UNCHANGED notLegVars

\* the vector leg is answered (a failure is the empty list of line 100)
VectorLegCompletes ==
    /\ lg_pc = "search"
    /\ lg_legs.vector = "in_flight"
    /\ \E outcome \in {"completed", "failed"} :
          lg_legs' = AfterVectorLeg(lg_legs, outcome,
                                    lg_call.use_hybrid_search)
    /\ lg_pc' = IF lg_call.use_hybrid_search THEN "search" ELSE "assemble"
    /\ UNCHANGED <<lg_call, lg_result>>
    /\ UNCHANGED notLegVars

\* the keyword leg is answered (a failure is the empty list of line 389)
KeywordLegCompletes ==
    /\ lg_pc = "search"
    /\ lg_legs.keyword = "in_flight"
    /\ \E outcome \in {"completed", "failed"} :
          lg_legs' = [lg_legs EXCEPT !.keyword = outcome]
    /\ UNCHANGED <<lg_pc, lg_call, lg_result>>
    /\ UNCHANGED notLegVars

\* lines 316-325: both awaits have returned and the lists are fused; when
\* the fusion raises, semantic_search is called again and awaited
LegsFuse ==
    /\ lg_pc = "search"
    /\ lg_call.use_hybrid_search
    /\ LegOver(lg_legs.vector) /\ LegOver(lg_legs.keyword)
    /\ \E ok \in BOOLEAN :
          lg_pc' = IF ok THEN "assemble" ELSE "search_fallback"
    /\ UNCHANGED <<lg_call, lg_legs, lg_result>>
    /\ UNCHANGED notLegVars

\* the semantic_search of line 325 is answered
FallbackLegCompletes ==
    /\ lg_pc = "search_fallback"
    /\ lg_pc' = "assemble"
    /\ UNCHANGED <<lg_call, lg_legs, lg_result>>
    /\ UNCHANGED notLegVars

\* lines 212-250: the context is built and returned, or an exception is
\* caught at line 252 and the fetch of line 258 awaited
LegsAssemble ==
    /\ lg_pc = "assemble"
    /\ \E ok \in BOOLEAN :
          IF ok THEN /\ lg_pc' = "returned"
                     /\ lg_result' = [op |-> "retrieve_context",
                                      kind |-> "normal"]
                ELSE /\ lg_pc' = "fallback"
                     /\ UNCHANGED lg_result
    /\ UNCHANGED <<lg_call, lg_legs>>
    /\ UNCHANGED notLegVars

\* the fetch of line 258 is answered: lines 262-283
LegsFallbackCompletes ==
    /\ lg_pc = "fallback"
    /\ \E ok \in BOOLEAN :
          lg_result' = [op |-> "retrieve_context",
                        kind |-> IF ok THEN "fallback"
                                       ELSE "double_failure"]
    /\ lg_pc' = "returned"
    /\ UNCHANGED <<lg_call, lg_legs>>
    /\ UNCHANGED notLegVars

(***************************************************************************)
(* EmbeddingService under concurrent callers  (embedding_service.py).      *)
(*                                                                         *)
(* The calls run on one event loop: a call runs alone from one await to    *)
(* the next, and any other call, clear_cache or get_cache_stats can run     *)
(* while it is suspended at the backend call (lines 50 and 129) or at       *)
(* asyncio.sleep (line 99).  The backend is taken to return the same        *)
(* vector whenever it is given the same text.                               *)
(***************************************************************************)
ConcTasks == 1..MaxConcTasks

\* the lists of texts the concurrent batch calls are given
ConcTextLists ==
    { <<>>, <<"a">>, <<" ">>, <<"a", "b">>, <<"b", " a">>, <<"a", "a">> }

\* the batch_size arguments of the concurrent batch calls (0: None)
ConcBatchSizes == {0, 1}

\* the text embed_query hands to generate_embedding (lines 178-194): the
\* texts tried hold no stop word, so that the filtered words joined by ' '
\* are the trimmed text
EmbedQueryText(raw_query) == Strip(raw_query)

NoTask == [op |-> "none", pc |-> "idle"]

NoStats == [op |-> "none"]

InitConc ==
    /\ co_tasks = [t \in ConcTasks |-> NoTask]
    /\ co_backend = {}
    /\ co_last = NoStats

\* get_cache_stats: lines 196-206; hit_rate in hundredths of a percent,
\* rounded as round(hit_rate, 2)
GetCacheStats ==
    LET total_requests == cache_hits + cache_misses
    IN  [cache_hits |-> cache_hits,
         cache_misses |-> cache_misses,
         hit_rate |-> IF total_requests > 0
                      THEN (2 * cache_hits * 10000 + total_requests)
                               \div (2 * total_requests)
                      ELSE 0,
         cache_size |-> Cardinality(CachedKeys(embedding_cache))]

\* the counter is left alone when vectors are stored
CountMissesNever(misses, stored) == misses

\* lines 60 and 142: self._cache_misses += 1 for every vector stored
CountMisses(misses, stored) == misses + stored

\* the zero vector of a failed call is stored like an answer
CacheOnAnswerAlways(cache, text, ok) ==
    CacheStore(cache, text, IF ok THEN EmbeddingOf(text) ELSE ZeroVector)

\* lines 56-68: the answer is stored in the try block, a failure stores
\* nothing
CacheOnAnswer(cache, text, ok) ==
    IF ok THEN CacheStore(cache, text, EmbeddingOf(text)) ELSE cache

\* tasks start in the order of their numbers
MayStart(t) ==
    /\ co_tasks[t].pc = "idle"
    /\ IF t = 1 THEN TRUE ELSE co_tasks[t - 1].pc # "idle"

\* generate_embedding, or embed_query that ends in it, up to the backend
\* call: lines 37-50
ConcGenerateCall(t) ==
    /\ MayStart(t)
    /\ \E op \in {"generate_embedding", "embed_query"}, raw \in RawTexts :
          LET text == IF op = "embed_query" THEN EmbedQueryText(raw)
                      ELSE raw
              call == [op |-> op, pc |-> "done", text |-> text,
                       result |-> ZeroVector]
          IN  /\ co_last' = [op |-> op]
              /\ IF Strip(text) = ""
                 THEN /\ co_tasks' = [co_tasks EXCEPT ![t] = call]
                      /\ UNCHANGED cache_hits
                 ELSE IF InCache(embedding_cache, Strip(text))
                 THEN /\ cache_hits' = cache_hits + 1
                      /\ co_tasks' =
                             [co_tasks EXCEPT ![t] =
                                 [call EXCEPT !.result =
                                     embedding_cache[Hash(Strip(text))]]]
                 ELSE /\ co_tasks' =
                             [co_tasks EXCEPT ![t] =
                                 [call EXCEPT !.pc = "backend"]]
                      /\ UNCHANGED cache_hits
    /\ UNCHANGED <<embedding_cache, cache_misses, co_backend>>
    /\ UNCHANGED <<emb_pc, emb_call, emb_history, emb_calls_started>>
    /\ UNCHANGED notConcVars

\* the backend answers a generate_embedding call or fails: lines 50-68
ConcGenerateResponse(t) ==
    /\ co_tasks[t].pc = "backend"
    /\ co_tasks[t].op \in {"generate_embedding", "embed_query"}
    /\ \E ok \in BOOLEAN :
          LET text == Strip(co_tasks[t].text)
          IN  /\ embedding_cache' = CacheOnAnswer(embedding_cache, text, ok)
              /\ cache_misses' =
                     IF ok THEN CountMisses(cache_misses, 1)
                     ELSE cache_misses
              /\ co_backend' =
                     IF ok THEN co_backend \cup {<<text, EmbeddingOf(text)>>}
                     ELSE co_backend
              /\ co_tasks' =
                     [co_tasks EXCEPT ![t] =
                         [@ EXCEPT !.pc = "done",
                                   !.result = IF ok THEN EmbeddingOf(text)
                                              ELSE ZeroVector]]
    /\ co_last' = [op |-> co_tasks[t].op]
    /\ UNCHANGED cache_hits
    /\ UNCHANGED <<emb_pc, emb_call, emb_history, emb_calls_started>>
    /\ UNCHANGED notConcVars

\* lines 95-102 for a task: the loop goes to asyncio.sleep and the next
\* batch, or the call returns
ConcFinishBatch(t, call, batch_embeddings) ==
    LET embeddings == call.embeddings \o batch_embeddings
    IN  co_tasks' =
            [co_tasks EXCEPT ![t] =
                IF call.i + call.batch_size < Len(call.texts)
                THEN [call EXCEPT !.pc = "sleep",
                                  !.embeddings = embeddings,
                                  !.i = call.i + call.batch_size,
                                  !.uncached_texts = <<>>,
                                  !.cached_embeddings = <<>>]
                ELSE [call EXCEPT !.pc = "done",
                                  !.embeddings = embeddings,
                                  !.uncached_texts = <<>>,
                                  !.cached_embeddings = <<>>]]

\* _process_batch of a task up to its backend call: lines 104-133
ConcProcessBatchBegin(t, call) ==
    LET batch == BatchAt(call.texts, call.i, call.batch_size)
        valid_texts == ValidTexts(batch)
        uncached_texts == UncachedTexts(valid_texts, embedding_cache)
        cached_embeddings == CachedEmbeddings(valid_texts, embedding_cache)
    IN  IF valid_texts = <<>>
        THEN /\ ConcFinishBatch(t, call,
                                [i \in 1..Len(batch) |-> ZeroVector])
             /\ UNCHANGED cache_hits
        ELSE /\ cache_hits' =
                    cache_hits + HitCount(valid_texts, embedding_cache)
             /\ IF uncached_texts = <<>>
                THEN ConcFinishBatch(t, call,
                                     CombineInOrder(batch, cached_embeddings,
                                                    <<>>))
                ELSE co_tasks' =
                         [co_tasks EXCEPT ![t] =
                             [call EXCEPT
                                 !.pc = "backend",
                                 !.uncached_texts = uncached_texts,
                                 !.cached_embeddings = cached_embeddings]]

\* generate_batch_embeddings is called: lines 85-94 and the first batch
ConcBatchCall(t) ==
    /\ MayStart(t)
    /\ \E texts \in ConcTextLists, bs \in ConcBatchSizes :
          LET call == [op |-> "generate_batch_embeddings", pc |-> "done",
                       texts |-> texts,
                       batch_size |-> IF bs = 0 THEN max_batch_size ELSE bs,
                       i |-> 0, embeddings |-> <<>>,
                       uncached_texts |-> <<>>, cached_embeddings |-> <<>>]
          IN  IF texts = <<>>
              THEN /\ co_tasks' = [co_tasks EXCEPT ![t] = call]
                   /\ UNCHANGED cache_hits
              ELSE ConcProcessBatchBegin(t, call)
    /\ co_last' = [op |-> "generate_batch_embeddings"]
    /\ UNCHANGED <<embedding_cache, cache_misses, co_backend>>
    /\ UNCHANGED <<emb_pc, emb_call, emb_history, emb_calls_started>>
    /\ UNCHANGED notConcVars

\* asyncio.sleep(0.1) of line 99 is over: the next batch
ConcBatchWake(t) ==
    /\ co_tasks[t].pc = "sleep"
    /\ ConcProcessBatchBegin(t, co_tasks[t])
    /\ co_last' = [op |-> "generate_batch_embeddings"]
    /\ UNCHANGED <<embedding_cache, cache_misses, co_backend>>
    /\ UNCHANGED <<emb_pc, emb_call, emb_history, emb_calls_started>>
    /\ UNCHANGED notConcVars

\* the backend answers the call of line 129 or fails: lines 135-161
ConcBatchResponse(t) ==
    /\ co_tasks[t].pc = "backend"
    /\ co_tasks[t].op = "generate_batch_embeddings"
    /\ \E ok \in BOOLEAN :
          LET call == co_tasks[t]
              batch == BatchAt(call.texts, call.i, call.batch_size)
              new_embeddings == NewEmbeddings(call.uncached_texts, ok)
          IN  /\ embedding_cache' =
                     CacheAfterResponse(embedding_cache, call.uncached_texts,
                                        new_embeddings, ok)
              /\ cache_misses' =
                     IF ok THEN CountMisses(cache_misses,
                                            Len(call.uncached_texts))
                     ELSE cache_misses
              /\ co_backend' =
                     IF ok
                     THEN co_backend \cup
                          { <<x, EmbeddingOf(x)>> :
                                x \in SeqRange(call.uncached_texts) }
                     ELSE co_backend
              /\ ConcFinishBatch(t, call,
                                 CombineInOrder(batch, call.cached_embeddings,
                                                new_embeddings))
    /\ co_last' = [op |-> "generate_batch_embeddings"]
    /\ UNCHANGED cache_hits
    /\ UNCHANGED <<emb_pc, emb_call, emb_history, emb_calls_started>>
    /\ UNCHANGED notConcVars

\* clear_cache, between two steps of the calls: lines 208-213
ConcClearCache ==
    /\ co_tasks[1].pc # "idle"
    /\ co_last.op # "clear_cache"
    /\ embedding_cache' = [h \in HashValues |-> NotCached]
    /\ cache_hits' = 0
    /\ cache_misses' = 0
    /\ co_last' = [op |-> "clear_cache"]
    /\ UNCHANGED <<co_tasks, co_backend>>
    /\ UNCHANGED <<emb_pc, emb_call, emb_history, emb_calls_started>>
    /\ UNCHANGED notConcVars

\* get_cache_stats, between two steps of the calls: lines 196-206
ConcGetCacheStats ==
    /\ co_tasks[1].pc # "idle"
    /\ co_last.op # "get_cache_stats"
    /\ co_last' = [op |-> "get_cache_stats", stats |-> GetCacheStats]
    /\ UNCHANGED <<embedding_cache, cache_hits, cache_misses>>
    /\ UNCHANGED <<co_tasks, co_backend>>
    /\ UNCHANGED <<emb_pc, emb_call, emb_history, emb_calls_started>>
    /\ UNCHANGED notConcVars

(***************************************************************************)
(* process_document_background  (routers/process_documents.py).            *)
(*                                                                         *)
(* The storage client is synchronous: a task runs alone from its start to  *)
(* the await of generate_batch_embeddings (line 113), and from the answer  *)
(* of the backend to its end.                                              *)
(***************************************************************************)
BgTasks == 1..MaxBgTasks

\* rows of reference_materials: the number of chunks the content gives
\* (-1: no content and nothing to download)
BgMaterials ==
    [d1 |-> [chunks |-> 2], d2 |-> [chunks |-> 1], d3 |-> [chunks |-> 0],
     d4 |-> [chunks |-> -1]]

\* the doc_id arguments: the documents of reference_materials and one that
\* is not there
BgDocIds == DOMAIN BgMaterials \cup {"d0"}

NoBgTask == [pc |-> "idle", doc_id |-> "none", outcome |-> "none"]

InitBg ==
    /\ bg_tasks = [t \in BgTasks |-> NoBgTask]
    /\ bg_chunks = <<>>
    /\ bg_documents = {}
    /\ bg_cached = {}

\* lines 70-76: select chunk_id from document_chunks where doc_id = ...
ExistingChunks(chunks, doc_id) ==
    { i \in 1..Len(chunks) : chunks[i].doc_id = doc_id }

\* lines 118-138: one record per chunk, inserted in batches of 50
ChunkRecords(doc_id, n, t) ==
    [i \in 1..n |-> [doc_id |-> doc_id, chunk_index |-> i - 1, task |-> t]]

\* lines 116-148 (and 150-163 when the insert raises)
BgStore(t, task, n) ==
    \E insert_ok \in BOOLEAN :
        /\ bg_chunks' = IF insert_ok
                        THEN bg_chunks \o ChunkRecords(task.doc_id, n, t)
                        ELSE bg_chunks
        /\ bg_tasks' =
               [bg_tasks EXCEPT ![t] =
                   [task EXCEPT !.pc = "done",
                                !.outcome = IF insert_ok THEN "completed"
                                            ELSE "failed"]]

\* the task runs from its start to the await of line 113: lines 30-113
BgStart(t) ==
    /\ bg_tasks[t].pc = "idle"
    /\ IF t = 1 THEN TRUE ELSE bg_tasks[t - 1].pc # "idle"
    /\ \E doc_id \in BgDocIds :
          LET task == [pc |-> "done", doc_id |-> doc_id, outcome |-> "none"]
              n == IF doc_id \in DOMAIN BgMaterials
                   THEN BgMaterials[doc_id].chunks ELSE -1
              skip(outcome) ==
                  /\ bg_tasks' = [bg_tasks EXCEPT ![t] =
                                     [task EXCEPT !.outcome = outcome]]
                  /\ UNCHANGED <<bg_chunks, bg_documents>>
          IN  IF doc_id \notin DOMAIN BgMaterials THEN skip("not_found")
              ELSE IF n < 0 THEN skip("no_content")
              ELSE IF ExistingChunks(bg_chunks, doc_id) # {}
              THEN skip("already_processed")
              ELSE /\ bg_documents' = bg_documents \cup {doc_id}
                   /\ IF n = 0 \/ doc_id \in bg_cached
                      THEN BgStore(t, task, n)
                      ELSE /\ bg_tasks' =
                                  [bg_tasks EXCEPT ![t] =
                                      [task EXCEPT !.pc = "embedding"]]
                           /\ UNCHANGED bg_chunks
    /\ UNCHANGED bg_cached
    /\ UNCHANGED notBgVars

\* the backend answers the batch call or fails (zero vectors), and the
\* task runs to its end: lines 113-148
BgEmbedded(t) ==
    /\ bg_tasks[t].pc = "embedding"
    /\ \E ok \in BOOLEAN :
          bg_cached' = IF ok THEN bg_cached \cup {bg_tasks[t].doc_id}
                       ELSE bg_cached
    /\ BgStore(t, bg_tasks[t], BgMaterials[bg_tasks[t].doc_id].chunks)
    /\ UNCHANGED bg_documents
    /\ UNCHANGED notBgVars

(***************************************************************************)
(* Specifications.                                                         *)
(***************************************************************************)
Init ==
    /\ InitRAG /\ InitEmb /\ InitSearch /\ InitChunk /\ InitUpload /\ InitTenant
    /\ InitLegs /\ InitConc /\ InitBg

NextRAG ==
    \/ StartRequest
    \/ FetchExact
    \/ Retrieve
    \/ Assemble
    \/ Fallback

\* retrieve_context calls, one after the other
SpecRAG == Init /\ [][NextRAG]_vars

NextEmb ==
    \/ GenerateEmbeddingCall
    \/ GenerateEmbeddingResponse
    \/ GenerateBatchCall
    \/ ProcessBatchBegin
    \/ ProcessBatchResponse
    \/ ClearCache

\* EmbeddingService calls, one after the other
SpecEmb == Init /\ [][NextEmb]_vars

NextSearch ==
    \/ HybridSearchCall
    \/ HybridSearchReturn
    \/ SemanticSearchFixedCall
    \/ SemanticSearchFixedReturn
    \/ FusionCall
    \/ FusionReturn

\* one VectorSearchService call on any table and with any arguments
SpecSearch == Init /\ [][NextSearch]_vars

NextChunk ==
    \/ SmartChunkCall
    \/ SmartChunkReturn

\* one smart_chunk_document call on any text
SpecChunk == Init /\ [][NextChunk]_vars

NextUpload ==
    \/ UploadCall
    \/ UploadChunk
    \/ UploadEmbed
    \/ UploadStoreDocument
    \/ UploadStoreBatch
    \/ UploadReturn

\* one process_document_upload call
SpecUpload == Init /\ [][NextUpload]_vars

NextTenant ==
    \/ TenantRetrieveCall
    \/ TenantRetrieveReturn

\* one retrieve_context call made for a tenant
SpecTenant == Init /\ [][NextTenant]_vars

NextLegs ==
    \/ LegsRetrieveCall
    \/ LegsTrainingCompletes
    \/ VectorLegCompletes
    \/ KeywordLegCompletes
    \/ LegsFuse
    \/ FallbackLegCompletes
    \/ LegsAssemble
    \/ LegsFallbackCompletes

\* one retrieve_context call, await by await
SpecLegs == Init /\ [][NextLegs]_vars

\* the same call under the scheduling of the event loop: a coroutine that
\* can run is run (the steps without an await), while nothing makes an
\* external call answer
SpecLegsLive ==
    SpecLegs /\ WF_vars(LegsFuse) /\ WF_vars(LegsAssemble)

NextConc ==
    \/ \E t \in ConcTasks : ConcGenerateCall(t)
    \/ \E t \in ConcTasks : ConcGenerateResponse(t)
    \/ \E t \in ConcTasks : ConcBatchCall(t)
    \/ \E t \in ConcTasks : ConcBatchWake(t)
    \/ \E t \in ConcTasks : ConcBatchResponse(t)
    \/ ConcClearCache
    \/ ConcGetCacheStats

\* concurrent EmbeddingService calls on one event loop
SpecConc == Init /\ [][NextConc]_vars

NextBg ==
    \/ \E t \in BgTasks : BgStart(t)
    \/ \E t \in BgTasks : BgEmbedded(t)

\* concurrent process_document_background tasks on one event loop
SpecBg == Init /\ [][NextBg]_vars

(***************************************************************************)
(* Properties of retrieve_context, checked under SpecRAG.                  *)
(***************************************************************************)
Returned_Normal ==
    pc = "done" /\ "confidence" \notin steps_failed
                /\ "fetch_exact" \notin steps_failed

Returned_Fallback ==
    pc = "done" /\ ("confidence" \in steps_failed
                    \/ "fetch_exact" \in steps_failed)

RAGContextFields ==
    {"query", "retrieved_chunks", "context_text", "source_count",
     "confidence_score", "processing_time", "context_sources", "token_count"}

WellFormedRAGContext(c) ==
    /\ DOMAIN c = RAGContextFields
    /\ c.query = query
    /\ c.source_count \in Nat
    /\ c.source_count = Len(c.retrieved_chunks)
    /\ c.confidence_score \in Int
    /\ c.token_count \in Nat
    /\ c.processing_time = Elapsed
    /\ \A i \in 1..Len(c.context_sources) :
          c.context_sources[i] \in
              {"training_data", "hybrid", "vector", "training_data_fallback"}
    /\ \A i \in 1..Len(c.context_text) : c.context_text[i].words > 0

\* C1: retrieve_context never lets an exception reach its caller, whatever
\* fails in the training fetch, the search legs, the assembly and the
\* scoring; a call that has ended has returned a RAGContext with every
\* field set.
C1_NeverRaises ==
    /\ pc # "raised"
    /\ pc = "done" => WellFormedRAGContext(rag_context)
    /\ pc # "done" => rag_context = NoRAGContext

\* a call that returned although the training storage, the embedding
\* backend, the keyword query, the scoring and the fallback fetch all failed
C1_Witness ==
    /\ pc = "done"
    /\ {"training_storage", "embedding", "keyword_storage", "confidence",
        "fallback_fetch"} \subseteq steps_failed

\* C2: every RAGContext returned has 0 <= confidence_score <= 1.
C2_ConfidenceBounds ==
    pc = "done" =>
        /\ rag_context.confidence_score >= 0
        /\ rag_context.confidence_score <= 600000

\* a normal return whose weighted sum exceeded 1 and was clamped
C2_Witness ==
    /\ Returned_Normal
    /\ rag_context.retrieved_chunks # <<>>
    /\ WeightedConfidence(ConfidenceFactors(training_context, all_results,
                                            query)) > 600000
    /\ rag_context.confidence_score = 600000

\* the steps of the call that end by raising (the failures of the external
\* calls are absorbed where they happen and are not among them)
RaisingSteps == {"fetch_exact", "fusion", "confidence"}

ExactOnly(c) ==
    /\ c.retrieved_chunks = <<>>
    /\ c.source_count = 0
    /\ \A i \in 1..Len(c.context_text) : c.context_text[i].kind = "fallback"
    /\ c.confidence_score = IF c.context_text # <<>> THEN 300000 ELSE 60000

C4_NoDataAtAll ==
    (Returned_Normal /\ training_context = 0 /\ all_results = <<>>) =>
        /\ rag_context.context_text = <<>>
        /\ rag_context.source_count = 0
        /\ rag_context.confidence_score = 0

\* the simplicity factor 1.0 - min(words/10, 1.0) * 0.3 of a query (x60000)
SimplicityFactor(q) == 60000 - (Min2(q.words * 6000, 60000) * 3) \div 10

\* C5 as claimed: with a training text and no search result the call
\* returns context_sources = ["training_data"] and the confidence
\* 0.9 x 0.4 + simplicity x 0.1, which lies between 0.36 and 0.46.
C5_ExactMatchOnly ==
    (Returned_Normal /\ training_context > 0 /\ all_results = <<>>) =>
        /\ rag_context.context_sources = <<"training_data">>
        /\ rag_context.confidence_score = 4 * 54000 + SimplicityFactor(query)
        /\ rag_context.confidence_score >= 216000
        /\ rag_context.confidence_score <= 276000

\* C6 as claimed: whenever the training text is non-empty the context built
\* by _build_comprehensive_context has the training section as its first
\* section, whatever the size of the text.
C6_ExactFirst ==
    (Returned_Normal /\ training_context > 0) =>
        /\ rag_context.context_text # <<>>
        /\ rag_context.context_text[1].kind = "training"

\* C7 as claimed: the context_text returned is within max_context_tokens
\* when its words (headers, separator and truncation marker included) are
\* counted at 1.3 tokens a word.
C7_WithinBudget ==
    pc = "done" =>
        Tokens10(ContextWords(rag_context.context_text))
            <= max_context_tokens * 10

(***************************************************************************)
(* Properties of the embedding service, checked under SpecEmb.             *)
(***************************************************************************)
\* two generate_embedding calls have completed one right after the other,
\* with texts that are equal after trimming
TwoCallsSameText ==
    /\ emb_pc = "idle"
    /\ Len(emb_history) = 2
    /\ emb_history[1].op = "generate_embedding"
    /\ emb_history[2].op = "generate_embedding"
    /\ Strip(emb_history[1].texts[1]) = Strip(emb_history[2].texts[1])

\* C8 as claimed: two generate_embedding calls in sequence with texts that
\* are equal after trimming issue exactly one backend call in total and
\* return the same vector, whatever the outcome of the backend call.
C8_Original ==
    TwoCallsSameText =>
        /\ emb_history[1].backend_calls + emb_history[2].backend_calls = 1
        /\ emb_history[1].result = emb_history[2].result

\* C8 amended: for two generate_embedding calls in sequence with texts that
\* are equal after trimming: if the text is empty neither call reaches the
\* backend and both return the zero vector; if the first call obtains a
\* vector (from the cache or from a successful backend call) the second
\* call issues no backend call and returns that same vector, so that the
\* two calls issue one backend call when the text was not cached before and
\* none when it was; if the backend call of the first call fails nothing is
\* cached and the second call asks the backend again.
C8_Amended ==
    TwoCallsSameText =>
        LET first == emb_history[1]
            second == emb_history[2]
            text == Strip(first.texts[1])
        IN  IF text = ""
            THEN /\ first.backend_calls = 0 /\ second.backend_calls = 0
                 /\ first.result = <<ZeroVector>>
                 /\ second.result = <<ZeroVector>>
            ELSE IF first.result # <<ZeroVector>>
            THEN /\ second.backend_calls = 0
                 /\ second.result = first.result
                 /\ first.backend_calls =
                        (IF Hash(text) \in first.cache_before THEN 0 ELSE 1)
            ELSE /\ first.backend_calls = 1
                 /\ second.backend_calls = 1
                 /\ Hash(text) \notin second.cache_before

\* the first call asked the backend and succeeded, the second call, whose
\* text differs before trimming, was served from the cache
C8_Witness ==
    /\ TwoCallsSameText
    /\ emb_history[1].texts # emb_history[2].texts
    /\ emb_history[1].backend_calls = 1
    /\ emb_history[1].result # <<ZeroVector>>
    /\ emb_history[2].backend_calls = 0
    /\ emb_history[2].result = emb_history[1].result

\* a generate_batch_embeddings call has just returned
BatchReturned ==
    /\ emb_pc = "idle"
    /\ emb_history # <<>>
    /\ emb_history[Len(emb_history)].op = "generate_batch_embeddings"

LastCall == emb_history[Len(emb_history)]

\* every text sent to the backend by the call
SentTexts(call) ==
    UNION { SeqRange(call.sent[k]) : k \in 1..Len(call.sent) }

\* C9: generate_batch_embeddings returns one vector per input text, the
\* vector at position i being that of input i (the zero vector for an empty
\* or whitespace text, and for a text whose backend call failed), whatever
\* the duplicates, the batch size and the cache hits; empty and whitespace
\* texts are never sent to the backend.
C9_BatchOrder ==
    BatchReturned =>
        /\ Len(LastCall.result) = Len(LastCall.texts)
        /\ \A i \in 1..Len(LastCall.texts) :
              LET text == Strip(LastCall.texts[i])
              IN  /\ text = "" => LastCall.result[i] = ZeroVector
                  /\ text # "" =>
                        LastCall.result[i] \in {EmbeddingOf(text), ZeroVector}
                  /\ (text # "" /\ LastCall.failed_batches = {}) =>
                        LastCall.result[i] = EmbeddingOf(text)
        /\ "" \notin SentTexts(LastCall)
        /\ SentTexts(LastCall) \subseteq
               { Strip(LastCall.texts[i]) : i \in 1..Len(LastCall.texts) }

\* one batch held a text that was not cached followed by a different text
\* that was, and both got their own vector
C9_Witness ==
    /\ BatchReturned
    /\ Len(LastCall.texts) = 2
    /\ LastCall.batch_size >= 2
    /\ LastCall.backend_calls = 1
    /\ LastCall.failed_batches = {}
    /\ Hash(Strip(LastCall.texts[1])) \notin LastCall.cache_before
    /\ Strip(LastCall.texts[2]) # ""
    /\ Hash(Strip(LastCall.texts[2])) \in LastCall.cache_before
    /\ LastCall.result[1] # LastCall.result[2]

\* the batch the text at position i (from 1) belongs to
BatchOf(call, i) == BatchNumber(i - 1, call.batch_size)

\* the text was in the cache when its batch was looked up: it was cached
\* before the call, or an earlier batch that did not fail held it
CachedAtItsBatch(call, i) ==
    \/ Hash(Strip(call.texts[i])) \in call.cache_before
    \/ \E j \in 1..Len(call.texts) :
          /\ BatchOf(call, j) < BatchOf(call, i)
          /\ Strip(call.texts[j]) = Strip(call.texts[i])
          /\ BatchOf(call, j) \notin call.failed_batches

\* C10: when the backend fails for some batches of a call, the call still
\* returns one vector per input; the texts of a failed batch that were not
\* cached get the zero vector, and every other non-empty text gets its real
\* vector: a failed batch changes nothing for the other batches.
C10_BatchFailureIsolated ==
    BatchReturned =>
        /\ Len(LastCall.result) = Len(LastCall.texts)
        /\ \A i \in 1..Len(LastCall.texts) :
              LET text == Strip(LastCall.texts[i])
              IN  LastCall.result[i] =
                      IF text = "" THEN ZeroVector
                      ELSE IF BatchOf(LastCall, i) \in LastCall.failed_batches
                              /\ ~CachedAtItsBatch(LastCall, i)
                           THEN ZeroVector
                           ELSE EmbeddingOf(text)

\* the first batch failed, the second batch succeeded at the backend
C10_Witness ==
    /\ BatchReturned
    /\ LastCall.failed_batches = {1}
    /\ LastCall.backend_calls = 2
    /\ Len(LastCall.result) = 2
    /\ LastCall.result[1] = ZeroVector
    /\ LastCall.result[2] # ZeroVector

(***************************************************************************)
(* Properties of VectorSearchService, checked under SpecSearch.            *)
(***************************************************************************)
HybridReturned == hs_pc = "returned" /\ hs_result.op = "hybrid_search"

VectorLegFailed == ~hs_call.env.embed_ok \/ ~hs_call.env.rpc_ok

KeywordLegFailed == ~hs_call.env.kw_ok

\* the (doc_id, chunk_id) keys of a result list with their scores, in order
KeysAndScores(results) ==
    [i \in 1..Len(results) |->
        <<results[i].doc_id, results[i].chunk_id, results[i].similarity>>]

\* what the fusion makes of one leg when the other leg is empty: every
\* result weighted by the weight of its leg, best first, at most limit
LegAlone(results, weight, limit) ==
    KeysAndScores(
        Take(SortDesc([i \in 1..Len(results) |->
                          [results[i] EXCEPT
                              !.similarity = (@ * weight) \div 10]]),
             limit))

\* the keyword leg and the vector leg of the call as they come out when
\* every external call succeeds
KeywordLegUnfailed ==
    KeywordSearch(hs_call.query, hs_call.corpus, hs_call.assistant_key,
                  hs_call.limit * 2, TRUE)

VectorLegUnfailed ==
    SemanticSearch(hs_call.query, hs_call.corpus, hs_call.limit * 2, 500,
                   TRUE, TRUE)

LegScore(leg_results, r) ==
    IF \E j \in 1..Len(leg_results) :
           /\ leg_results[j].chunk_id = r.chunk_id
           /\ leg_results[j].doc_id = r.doc_id
    THEN leg_results[CHOOSE j \in 1..Len(leg_results) :
                        /\ leg_results[j].chunk_id = r.chunk_id
                        /\ leg_results[j].doc_id = r.doc_id].similarity
    ELSE 0

KeysOf(results) ==
    { <<results[i].doc_id, results[i].chunk_id>> : i \in 1..Len(results) }

\* C19: _combine_search_results scores every key with
\* vector_score x vector_weight + keyword_score x keyword_weight, a missing
\* leg counting 0; its output holds every key of the two legs once, sorted
\* by that score in non-increasing order, and hybrid_search returns its
\* first `limit` elements
C19_FusionScores ==
    (HybridReturned /\ ~hs_result.combined_results.raised) =>
        LET V == hs_result.vector_results
            K == hs_result.keyword_results
            C == hs_result.combined_results.results
        IN  /\ KeysOf(C) = KeysOf(V) \cup KeysOf(K)
            /\ Len(C) = Cardinality(KeysOf(C))
            /\ \A i \in 1..Len(C) :
                  C[i].similarity * 10 =
                      LegScore(V, C[i]) * hs_call.vector_weight
                      + LegScore(K, C[i]) * hs_call.keyword_weight
            /\ \A i, j \in 1..Len(C) :
                  i < j => C[i].similarity >= C[j].similarity
            /\ Len(hs_result.results) = Min2(hs_call.limit, Len(C))
            /\ \A i \in 1..Len(hs_result.results) : hs_result.results[i] = C[i]

\* a fusion with a key found by both legs, a key found by one leg only and
\* more keys than the limit
C19_Witness ==
    /\ HybridReturned
    /\ ~hs_result.combined_results.raised
    /\ KeysOf(hs_result.vector_results)
           \cap KeysOf(hs_result.keyword_results) # {}
    /\ KeysOf(hs_result.keyword_results)
           \ KeysOf(hs_result.vector_results) # {}
    /\ Len(hs_result.combined_results.results) > hs_call.limit
    /\ Len(hs_result.results) = hs_call.limit

\* C20: on the same two leg lists, weights and limit, the fusion of
\* vector_search_service_fixed.hybrid_search returns the same keys with the
\* same combined scores as the fusion of vector_search_service.hybrid_search
C20_FusionsAgree ==
    (HybridReturned /\ ~hs_result.combined_results.raised) =>
        KeysAndScores(hs_result.fixed_fusion)
            = KeysAndScores(hs_result.results)

SemanticFixedReturned ==
    hs_pc = "returned" /\ hs_result.op = "semantic_search_fixed"

\* C12: the zero vector never matches: a zero query embedding gives an
\* empty result, and no chunk stored with the zero vector is in the result
\* of semantic_search, whatever the threshold
C12_ZeroVectorNeverMatches ==
    SemanticFixedReturned =>
        /\ Norm(hs_call.query_embedding) = 0 => hs_result.results = <<>>
        /\ \A i \in 1..Len(hs_result.results) :
              hs_result.results[i].source = "document_chunks"
                  => Norm(hs_result.results[i].embedding) # 0

(***************************************************************************)
(* The weights of _calculate_confidence, checked under SpecRAG.            *)
(***************************************************************************)
\* the four factors of a returned context, each in its own slot and 0 when
\* it is missing (x60000): exact match, average similarity of the first
\* five results, diversity bonus, query simplicity
FactorsBySlot ==
    << IF training_context > 0 THEN 54000 ELSE 0,
       IF all_results # <<>>
       THEN (SeqSum(Similarities(Take(all_results, 5))) * 60)
                \div Len(Take(all_results, 5))
       ELSE 0,
       IF all_results # <<>>
       THEN Min2(HighQualityCount(all_results) * 6000, 12000)
       ELSE 0,
       SimplicityFactor(query) >>

\* C18: the confidence of a returned context is
\* 0.4 x exact + 0.3 x similarity + 0.2 x diversity + 0.1 x simplicity
\* (clamped to [0, 1]) whatever factors are missing: a missing factor counts
\* 0 in its own slot and moves no other factor to another weight
C18_FixedWeights ==
    Returned_Normal =>
        rag_context.confidence_score =
            Min2(Max2(4 * FactorsBySlot[1] + 3 * FactorsBySlot[2]
                      + 2 * FactorsBySlot[3] + 1 * FactorsBySlot[4], 0),
                 600000)

(***************************************************************************)
(* Properties of ChunkProcessor, checked under SpecChunk.                  *)
(***************************************************************************)
ChunkCallOver == ck_pc \in {"returned", "raised"}

\* C13: smart_chunk_document never raises, whatever the text and the
\* metadata (None included), and returns an empty list for an empty or
\* whitespace-only text
C13_ChunkerFailsSoftly ==
    ChunkCallOver =>
        /\ ck_pc = "returned"
        /\ ~ck_result.raised
        /\ ck_call.text.kind \in {"none", "empty", "blank"}
               => ck_result.chunks = <<>>

\* a call with a whitespace-only text and metadata=None has returned []
C13_Witness ==
    /\ ck_pc = "returned"
    /\ ck_call.text.kind = "blank"
    /\ ck_call.metadata = "none"
    /\ ck_result.chunks = <<>>

\* C14: every chunk of smart_chunk_document holds at most max_chunk_tokens
\* tokens, except a chunk made of one unit that cannot be split; a chunk of
\* several sentences, seeded with overlap sentences or not, is within the
\* budget
C14_ChunkTokenBudget ==
    ck_pc = "returned" =>
        \A i \in 1..Len(ck_result.chunks) :
            Len(ck_result.chunks[i].units) > 1
                => ck_result.chunks[i].token_count <= max_chunk_tokens

(***************************************************************************)
(* Properties of process_document_upload, checked under SpecUpload.        *)
(***************************************************************************)
\* C15: a process_document_upload call without assistant_key (None or "")
\* is rejected before any I/O: it makes no embedding-backend call and no
\* storage insert, and it is not reported as a success
C15_RejectedBeforeIO ==
    (up_pc # "idle" /\ up_call.assistant_key \in {"none", ""}) =>
        /\ up_io = NoIO
        /\ up_pc = "done" => ~up_result.success

\* C17: a result with success=True has a doc_id, its chunks_stored is the
\* number of chunk records persisted, and no document or chunk insert of
\* the call has failed
C17_SuccessMeansStored ==
    (up_pc = "done" /\ up_result.success) =>
        /\ up_result.doc_id # "none"
        /\ up_store.documents = 1
        /\ up_result.chunks_stored = up_store.chunks

(***************************************************************************)
(* Tenant isolation of retrieve_context, checked under SpecTenant.         *)
(***************************************************************************)
\* the tables with the rows of every other tenant removed
OwnRowsOnly(store, tenant_id) ==
    [training_data |-> { r \in store.training_data : r.tenant = tenant_id },
     logic_notes |-> { r \in store.logic_notes : r.tenant = tenant_id },
     reference_materials |->
         { r \in store.reference_materials : r.tenant = tenant_id },
     document_chunks |->
         { r \in store.document_chunks : r.tenant = tenant_id }]

\* C16: the context retrieve_context returns for a tenant_id is built from
\* the records of that tenant only: it is the context the same call gets
\* when the rows of the other tenants are not there
C16_TenantIsolation ==
    tn_pc = "returned" =>
        tn_result = ContextRows(OwnRowsOnly(tn_call.store, tn_call.tenant_id),
                                tn_call.assistant_key, tn_call.tenant_id)


(***************************************************************************)
(* Properties of the fusion on arbitrary leg lists.                        *)
(***************************************************************************)
\* a fusion, inside hybrid_search or on its own, has returned
FusionReturned ==
    hs_pc = "returned" /\ hs_result.op \in {"hybrid_search", "fusion"}

\* no two results of the list have the same (doc_id, chunk_id)
NoDuplicateKeys(results) ==
    \A i, j \in 1..Len(results) :
        (/\ results[i].doc_id = results[j].doc_id
         /\ results[i].chunk_id = results[j].chunk_id) => i = j

\* some identity occurs twice in the list
HasDuplicateKeys(results) == ~NoDuplicateKeys(results)

\* C21: the list hybrid_search returns never holds two results with the
\* same (doc_id, chunk_id), whatever the two leg lists are (overlapping, or
\* with one identity several times), in vector_search_service.py and in
\* vector_search_service_fixed.py.
C21_NoDuplicateIdentity ==
    FusionReturned =>
        /\ NoDuplicateKeys(hs_result.results)
        /\ NoDuplicateKeys(hs_result.fixed_fusion)

\* a fusion returned several results from legs in which one identity is
\* twice in the vector list and also in the keyword list
C21_Witness ==
    /\ FusionReturned
    /\ HasDuplicateKeys(hs_result.vector_results)
    /\ HasDuplicateKeys(hs_result.vector_results \o hs_result.keyword_results)
    /\ Len(hs_result.keyword_results) > 0
    /\ Len(hs_result.results) > 1
    /\ Len(hs_result.fixed_fusion) > 1

\* position of the first result of the list with the identity of r, or 0
RECURSIVE FirstIndex(_, _, _)
FirstIndex(results, r, i) ==
    IF i > Len(results) THEN 0
    ELSE IF results[i].doc_id = r.doc_id /\ results[i].chunk_id = r.chunk_id
         THEN i
    ELSE FirstIndex(results, r, i + 1)

\* the rank of an identity before the fusion: its place in the vector leg,
\* and behind the whole vector leg its place in the keyword leg
LegRank(vector_results, keyword_results, r) ==
    IF FirstIndex(vector_results, r, 1) > 0
    THEN FirstIndex(vector_results, r, 1)
    ELSE Len(vector_results) + FirstIndex(keyword_results, r, 1)

\* C23: _combine_search_results orders results of equal combined score by
\* their rank before the fusion: results of the vector leg in leg order,
\* then the keyword-only results in leg order; the returned sequence is
\* thereby fixed by the two leg lists and the weights.
C23_TiesByLegRank ==
    (FusionReturned /\ ~hs_result.combined_results.raised) =>
        LET res == hs_result.combined_results.results
            rank(r) == LegRank(hs_result.vector_results,
                               hs_result.keyword_results, r)
        IN  \A i, j \in 1..Len(res) :
                i < j =>
                    /\ res[i].similarity >= res[j].similarity
                    /\ res[i].similarity = res[j].similarity
                           => rank(res[i]) < rank(res[j])

\* a fusion returned a keyword-only result and a later vector-leg result
\* tied with an earlier vector-leg result
C23_Witness ==
    /\ FusionReturned
    /\ ~hs_result.combined_results.raised
    /\ LET res == hs_result.combined_results.results
       IN  /\ Len(res) = 3
           /\ res[1].similarity = res[3].similarity
           /\ FirstIndex(hs_result.vector_results, res[3], 1) = 0
           /\ FirstIndex(hs_result.vector_results, res[2], 1) = 2

(***************************************************************************)
(* Properties of the retrieve_context call, await by await.                *)
(***************************************************************************)
\* C22: in hybrid_search the keyword leg is started without waiting for the
\* vector leg (once the vector leg is in flight the keyword leg has been
\* issued too), and the fusion runs only after both legs have completed or
\* failed.
C22_LegsConcurrent ==
    /\ (lg_call.op = "retrieve_context" /\ lg_call.use_hybrid_search
        /\ lg_legs.vector = "in_flight") => lg_legs.keyword # "not_issued"
    /\ (lg_call.op = "retrieve_context" /\ lg_call.use_hybrid_search
        /\ lg_pc \in {"assemble", "search_fallback"})
           => LegOver(lg_legs.vector) /\ LegOver(lg_legs.keyword)

\* C24: retrieve_context returns even when an external call of the chain is
\* never answered: every call that was made eventually returns a
\* RAGContext.
C24_ReturnsDespiteHang == (lg_pc # "idle") ~> (lg_pc = "returned")

(***************************************************************************)
(* Properties of the embedding cache under concurrent callers.             *)
(***************************************************************************)
\* every cached vector is one the backend returned for the text of its key
CachedFromBackend ==
    \A h \in HashValues :
        embedding_cache[h] # NotCached =>
            /\ embedding_cache[h] # ZeroVector
            /\ \E x \in TrimmedTexts :
                  Hash(x) = h /\ <<x, embedding_cache[h]>> \in co_backend

\* a step keeps every entry of the cache as it is
EntriesKept ==
    \A h \in HashValues :
        embedding_cache[h] # NotCached =>
            embedding_cache'[h] = embedding_cache[h]

StatsConsistent(stats) ==
    /\ stats.cache_size <= stats.cache_misses
    /\ stats.cache_hits >= 0
    /\ stats.hit_rate >= 0
    /\ stats.hit_rate <= 10000

\* C30: after any interleaving of generate_embedding,
\* generate_batch_embeddings, embed_query, clear_cache and get_cache_stats,
\* get_cache_stats reports cache_size <= cache_misses, cache_hits >= 0 and
\* 0 <= hit_rate <= 100, and clear_cache has reset the cache and the two
\* counters together.
C30_StatsConsistent ==
    /\ StatsConsistent(GetCacheStats)
    /\ co_last.op = "get_cache_stats" => StatsConsistent(co_last.stats)
    /\ co_last.op = "clear_cache" =>
           /\ CachedKeys(embedding_cache) = {}
           /\ cache_hits = 0
           /\ cache_misses = 0

\* get_cache_stats was called after hits and misses, with more misses than
\* cached texts, while a call was still at the backend
C30_Witness ==
    /\ co_last.op = "get_cache_stats"
    /\ co_last.stats.cache_size = 1
    /\ co_last.stats.cache_misses = 2
    /\ co_last.stats.cache_hits = 1
    /\ co_last.stats.hit_rate = 3333
    /\ \E t \in ConcTasks : co_tasks[t].pc = "backend"

(***************************************************************************)
(* Properties of the background tasks.                                     *)
(***************************************************************************)
\* the number of times the chunks of a document were inserted
StoredSets(chunks, doc_id) ==
    Cardinality({ i \in 1..Len(chunks) :
                    chunks[i].doc_id = doc_id /\ chunks[i].chunk_index = 0 })

\* C29: whatever the interleaving of the process_document_background tasks
\* of one doc_id, the document is chunked and stored at most once:
\* document_chunks holds at most one set of chunks for the doc_id.
C29_StoredAtMostOnce ==
    \A doc_id \in BgDocIds : StoredSets(bg_chunks, doc_id) <= 1

(***************************************************************************)
(* Properties of the chunking strategies, checked under SpecChunk.         *)
(***************************************************************************)
\* smart_chunk_document has returned the chunks of a document
DocumentChunked == ck_pc = "returned" /\ ck_call.text.kind = "text"

\* the two chunks have a whole sentence in common
ShareSentence(earlier, later) ==
    \E j \in 1..Len(earlier), k \in 1..Len(later) :
        earlier[j] = later[k] /\ earlier[j].p = 0

\* the later chunk starts with the last one or two units of the earlier one
StartsWithTail(earlier, later) ==
    \E n \in {1, 2} :
        /\ n <= Len(earlier) /\ n <= Len(later)
        /\ SubSeq(later, 1, n)
               = SubSeq(earlier, Len(earlier) - n + 1, Len(earlier))

\* C25: with the semantic strategy every two consecutive chunks of
\* _chunk_by_sentences share at least one whole sentence, the later one
\* starting with the last one or two sentences of the earlier one, for every
\* text, one with a sentence above max_chunk_tokens included.
C25_ConsecutiveChunksOverlap ==
    (DocumentChunked /\ ck_result.chunk_strategy = "semantic") =>
        \A i \in 1..(Len(ck_result.raw_chunks) - 1) :
            /\ ShareSentence(ck_result.raw_chunks[i],
                             ck_result.raw_chunks[i + 1])
            /\ StartsWithTail(ck_result.raw_chunks[i],
                              ck_result.raw_chunks[i + 1])

\* the strategy the layout of the document calls for: conversational
\* before structured before semantic
StrategyByPriority(text) ==
    IF text.qa_marks > 3 \/ text.layout.speaker_lines > 5
    THEN "conversational"
    ELSE IF text.layout.header_lines > 2 \/ text.layout.list_lines > 5
    THEN "structured"
    ELSE "semantic"

\* C26: the strategy is chosen by priority conversational > structured >
\* semantic: a document whose Q/A and dialogue marks do not exceed their
\* thresholds and that has more than 2 header lines or more than 5 list-item
\* lines is chunked with the structured strategy.
C26_StrategyPriority ==
    (DocumentChunked /\ StrategyByPriority(ck_call.text) = "structured") =>
        ck_result.chunk_strategy = "structured"

\* the units the cleaned document is made of: its Q/A segments when the
\* dialogue pattern finds any, its sentences otherwise, a sentence above
\* max_chunk_tokens counting as its clauses
DocumentUnits(text, strategy) ==
    IF strategy = "conversational"
       /\ \E i \in 1..Len(text.segments) : text.segments[i].plain
    THEN { [s |-> i, p |-> 0, tokens |-> text.segments[i].tokens] :
              i \in 1..Len(text.segments) }
    ELSE UNION { IF SeqSum(text.sentences[i]) > max_chunk_tokens
                 THEN { [s |-> i, p |-> j, tokens |-> text.sentences[i][j]] :
                           j \in 1..Len(text.sentences[i]) }
                 ELSE { [s |-> i, p |-> 0,
                         tokens |-> SeqSum(text.sentences[i])] } :
                 i \in 1..Len(text.sentences) }

\* unit a comes before unit b in the document
Before(a, b) == a.s < b.s \/ (a.s = b.s /\ a.p < b.p)

\* the unit is in one of the chunks
InChunks(unit, chunks) ==
    \E k \in 1..Len(chunks) :
        \E j \in 1..Len(chunks[k]) : chunks[k][j] = unit

\* the raw chunks that were dropped for being below min_chunk_tokens
DroppedChunks(raw_chunks) ==
    SelectSeq(raw_chunks, LAMBDA c : UnitsTokens(c) < min_chunk_tokens)

\* C27: for every document and strategy the returned chunks, in index
\* order, cover the cleaned document: every sentence or Q/A segment is in
\* at least one chunk, in document order, except what is only in fragments
\* dropped for being below min_chunk_tokens.
C27_ChunksCoverDocument ==
    DocumentChunked =>
        LET returned == [k \in 1..Len(ck_result.chunks) |->
                            ck_result.chunks[k].units]
        IN  /\ \A unit \in DocumentUnits(ck_call.text,
                                         ck_result.chunk_strategy) :
                   \/ InChunks(unit, returned)
                   \/ InChunks(unit, DroppedChunks(ck_result.raw_chunks))
            /\ \A k \in 1..Len(returned) :
                   \A i, j \in 1..Len(returned[k]) :
                       i < j => Before(returned[k][i], returned[k][j])
            /\ \A k \in 1..(Len(returned) - 1) :
                   /\ ~Before(returned[k + 1][1], returned[k][1])
                   /\ Before(returned[k][Len(returned[k])],
                             returned[k + 1][Len(returned[k + 1])])
============================================================================
